---- MODULE Spec2Model ----
(***************************************************************************)
(* Docwise: usage metering and the AI-generation request pipeline.         *)
(*                                                                         *)
(* The model covers the usage/plan policy (client: src/lib/subscription.ts,*)
(* server: supabase/functions/gemini-generate/index.ts), the user_usage    *)
(* table with its constraints and row-level policies, the generation proxy *)
(* handler with one interleaving point per awaited database or completion  *)
(* call, and the client-side plan sync.                                    *)
(***************************************************************************)
EXTENDS Integers, Sequences, FiniteSets, TLC

(***************************************************************************)
(* Bounds                                                                  *)
(***************************************************************************)
\* largest ai_generations_used value drawn for the pure policy functions
MaxUsed == 11
\* number of generation requests that may be in flight
NReq == 2
\* number of document ids
NDoc == 1
\* longest text drawn for a field of a request body
MaxLen == 2
\* number of handleDeleteDocument calls that are followed
MaxDeletes == 2
Users == {"u1"}
Reqs == 1..NReq

(***************************************************************************)
(* JavaScript values as far as the limit lookup needs them: numbers,       *)
(* undefined and (function) objects inherited from Object.prototype.       *)
(***************************************************************************)
JsNum(n) == [t |-> "num", v |-> n]
JsUndefined == [t |-> "undefined", v |-> 0]
JsObject == [t |-> "object", v |-> 0]

\* ToBoolean
JsTruthy(x) == IF x.t = "num" THEN x.v # 0 ELSE x.t = "object"
\* a || b
JsOr(a, b) == IF JsTruthy(a) THEN a ELSE b
\* a > n for a number n: a function object converts to NaN, NaN > n is false
JsGt(a, n) == a.t = "num" /\ a.v > n
\* n >= a, same conversion
JsGe(n, a) == a.t = "num" /\ n >= a.v

(***************************************************************************)
(* Plans                                                                   *)
(***************************************************************************)
\* CHECK (plan IN ('free', 'pro', 'business'))
Plans == {"free", "pro", "business"}
\* a plan value that is absent (undefined / null)
MissingPlan == "<missing>"
\* property names every object literal inherits
ObjectPrototypeKeys == {"constructor", "toString", "valueOf", "hasOwnProperty"}
\* plan values handed to the pure policy functions
PlanInputs == Plans \cup {"enterprise", "", MissingPlan} \cup ObjectPrototypeKeys

Unlimited == -1

(***************************************************************************)
(* Client policy: getPlanLimits and the canUseAI expression                 *)
(***************************************************************************)
getPlanLimits(plan) ==
  CASE plan = "free" -> [aiGenerations |-> 1, documents |-> 3]
    [] plan = "pro" -> [aiGenerations |-> 10, documents |-> 50]
    [] plan = "business" -> [aiGenerations |-> -1, documents |-> -1]
    [] OTHER -> [aiGenerations |-> 1, documents |-> 3]

\* useSubscription: usage ? getPlanLimits(usage.plan) : getPlanLimits('free')
HookLimits(usageLoaded, plan) ==
  IF usageLoaded THEN getPlanLimits(plan) ELSE getPlanLimits("free")

\* variant: the comparison admits the limit itself
ClientCanUseAI_Inclusive(aiGenerations, used) ==
  aiGenerations = -1 \/ used <= aiGenerations

\* limits.aiGenerations === -1 || usage.ai_generations_used < limits.aiGenerations
ClientCanUseAI(aiGenerations, used) ==
  aiGenerations = -1 \/ used < aiGenerations

(***************************************************************************)
(* Server policy: the limits object, the lookup and the limit check         *)
(***************************************************************************)
\* variant: the pro entry carries the document limit
ServerLimits_DocLimit == [free |-> 1, pro |-> 50, business |-> -1]

ServerLimits == [free |-> 1, pro |-> 10, business |-> -1]

\* limits[usage.plan]: own property, else inherited one, else undefined
ServerLimitsLookup(plan) ==
  IF plan \in DOMAIN ServerLimits THEN JsNum(ServerLimits[plan])
  ELSE IF plan \in ObjectPrototypeKeys THEN JsObject
  ELSE JsUndefined

\* const userLimit = <entry> || 1
ServerUserLimit(entry) == JsOr(entry, JsNum(1))

\* variant: the limit itself is still admitted
ServerDenies_Strict(userLimit, used) ==
  JsGt(userLimit, 0) /\ userLimit.t = "num" /\ used > userLimit.v

\* userLimit > 0 && usage.ai_generations_used >= userLimit
ServerDenies(userLimit, used) == JsGt(userLimit, 0) /\ JsGe(used, userLimit)

(***************************************************************************)
(* Texts (sequences of characters) and String.prototype.trim                *)
(***************************************************************************)
RECURSIVE TrimStart(_)
TrimStart(s) == IF s # <<>> /\ Head(s) = " " THEN TrimStart(Tail(s)) ELSE s

RECURSIVE TrimEnd(_)
TrimEnd(s) ==
  IF s # <<>> /\ s[Len(s)] = " " THEN TrimEnd(SubSeq(s, 1, Len(s) - 1)) ELSE s

Trim(s) == TrimEnd(TrimStart(s))

\* JSON field values: absent, a number, or a string
JsStr(s) == [t |-> "str", s |-> s]
JsAbsent == [t |-> "undefined", s |-> <<>>]
JsNumber == [t |-> "num", s |-> <<>>]

\* variant: the text is not trimmed before its length is taken
InvalidText_NoTrim(x) == x.t # "str" \/ Len(x.s) = 0

\* !x || typeof x !== 'string' || x.trim().length === 0
InvalidText(x) == x.t # "str" \/ Len(x.s) = 0 \/ Len(Trim(x.s)) = 0

(***************************************************************************)
(* Responses of the generation proxy                                        *)
(***************************************************************************)
\* status, kind of body (empty, text, or the JSON shapes error, limit_reached,
\* success) and, for a JSON error body, which error message it carries
Response(status, kind) == [status |-> status, kind |-> kind, error |-> ""]
ErrorResponse(status, error) == [status |-> status, kind |-> "error", error |-> error]
NoResponse == Response(0, "none")
Preflight == Response(200, "empty")
MethodNotAllowed == Response(405, "text")
NotConfigured == ErrorResponse(500, "Gemini API not configured")
Unauthorized == ErrorResponse(401, "Unauthorized")
InvalidInput == ErrorResponse(400, "missing or invalid")
UsageCheckFailed == ErrorResponse(500, "Failed to check usage limits")
LimitReached == Response(429, "limit_reached")
GenerationFailed == ErrorResponse(500, "Failed to generate")
\* the catch block: error.message || 'Internal server error'
InternalError == ErrorResponse(500, "Internal server error")
Success == Response(200, "success")

\* the synchronous prefix of the handler up to the usage query, together with
\* the auth lookup and body parsing, which touch no shared state
\*   "go" stands for: continue with the usage query
Continue == Response(0, "go")

HttpMethods == {"OPTIONS", "GET", "POST"}
AuthHeaders == {"missing", "invalid", "valid"}
Body(prompt, document_type) ==
  [malformed |-> FALSE, prompt |-> prompt, document_type |-> document_type]
MalformedBody == [malformed |-> TRUE, prompt |-> JsAbsent, document_type |-> JsAbsent]
\* the bodies the pipeline is driven with: one for each way through the
\* validation
Bodies ==
  {MalformedBody, Body(JsAbsent, JsStr(<<"x">>)), Body(JsStr(<<" ">>), JsStr(<<"x">>)),
   Body(JsStr(<<"x">>), JsNumber), Body(JsStr(<<"x">>), JsStr(<<>>)),
   Body(JsStr(<<" ", "x">>), JsStr(<<"x">>))}

\* variant: the handler does not look at the key before it goes on
HandlerPrefix_NoKeyCheck(method, keyConfigured, auth, body) ==
  IF method = "OPTIONS" THEN Preflight
  ELSE IF method # "POST" THEN MethodNotAllowed
  ELSE IF auth = "missing" THEN InternalError
  ELSE IF auth = "invalid" THEN Unauthorized
  ELSE IF body.malformed THEN InternalError
  ELSE IF InvalidText(body.prompt) THEN InvalidInput
  ELSE IF InvalidText(body.document_type) THEN InvalidInput
  ELSE Continue

HandlerPrefix(method, keyConfigured, auth, body) ==
  IF method = "OPTIONS" THEN Preflight
  ELSE IF method # "POST" THEN MethodNotAllowed
  ELSE IF ~keyConfigured THEN NotConfigured
  \* req.headers.get('Authorization')! is null: .replace throws, caught below
  ELSE IF auth = "missing" THEN InternalError
  \* getUser(token) returns an error or no user
  ELSE IF auth = "invalid" THEN Unauthorized
  \* req.json() rejects
  ELSE IF body.malformed THEN InternalError
  ELSE IF InvalidText(body.prompt) THEN InvalidInput
  ELSE IF InvalidText(body.document_type) THEN InvalidInput
  ELSE Continue

(***************************************************************************)
(* Responses of the completion service and their validation                 *)
(***************************************************************************)
GeminiResponse(kind, ok, cands, content, parts, text) ==
  [kind |-> kind, ok |-> ok, candidates |-> cands, content |-> content,
   parts |-> parts, text |-> text]

GeminiResponses ==
  {GeminiResponse("throw", FALSE, "missing", FALSE, "missing", JsAbsent),
   GeminiResponse("http", FALSE, "missing", FALSE, "missing", JsAbsent),
   GeminiResponse("http", TRUE, "missing", FALSE, "missing", JsAbsent),
   GeminiResponse("http", TRUE, "empty", FALSE, "missing", JsAbsent),
   GeminiResponse("http", TRUE, "some", FALSE, "missing", JsAbsent),
   GeminiResponse("http", TRUE, "some", TRUE, "missing", JsAbsent),
   GeminiResponse("http", TRUE, "some", TRUE, "empty", JsAbsent)}
  \cup {GeminiResponse("http", TRUE, "some", TRUE, "some", t) :
          t \in {JsAbsent, JsNumber, JsStr(<<>>), JsStr(<<" ">>), JsStr(<<" ", "x">>)}}

\* variant: a rejected fetch is not caught, the request gets no response
CompletionResult_Uncaught(resp) ==
  IF resp.kind = "throw" THEN NoResponse
  ELSE IF ~resp.ok THEN GenerationFailed
  ELSE IF resp.candidates # "some" THEN GenerationFailed
  ELSE IF ~resp.content THEN GenerationFailed
  ELSE IF resp.parts # "some" THEN GenerationFailed
  ELSE IF InvalidText(resp.text) THEN GenerationFailed
  ELSE Continue

\* what the handler does with the completion response: the response it
\* returns at once, or Continue when it goes on to the usage update
CompletionResult(resp) ==
  IF resp.kind = "throw" THEN InternalError
  ELSE IF ~resp.ok THEN GenerationFailed
  ELSE IF resp.candidates # "some" THEN GenerationFailed
  ELSE IF ~resp.content THEN GenerationFailed
  ELSE IF resp.parts # "some" THEN GenerationFailed
  ELSE IF InvalidText(resp.text) THEN GenerationFailed
  ELSE Continue

\* variant: the increment is applied to the stored value (atomic increment)
UsageWriteValue_Atomic(snapUsed, storedUsed) == storedUsed + 1

\* variant: the increment is doubled
UsageWriteValue_PlusTwo(snapUsed, storedUsed) == snapUsed + 2

\* ai_generations_used: usage.ai_generations_used + 1, from the snapshot read
\* before the completion call (stored is the row's value at write time)
UsageWriteValue(snapUsed, storedUsed) == snapUsed + 1

(***************************************************************************)
(* Billing mirror and the plan it maps to                                   *)
(***************************************************************************)
PriceIdToPlan == [price_pro |-> "pro", price_business |-> "business"]

Subscription(status, price) == [subscription_status |-> status, price_id |-> price]
NoSubscription == Subscription("none", "none")
SubInputs == {NoSubscription, Subscription("active", "price_pro"),
              Subscription("active", "price_business"),
              Subscription("canceled", "price_pro")}

\* newPlan of syncUserPlanWithSubscription
PlanForSubscription(sub) ==
  IF sub.subscription_status = "active" /\ sub.price_id # "none"
  THEN IF sub.price_id \in DOMAIN PriceIdToPlan THEN PriceIdToPlan[sub.price_id]
       ELSE "free"
  ELSE "free"

(***************************************************************************)
(* State                                                                    *)
(***************************************************************************)
VARIABLES
  GEMINI_API_KEY,   \* TRUE iff the completion-service key is configured
  user_usage,       \* user -> NoRow or [ai_generations_used, plan]
  stripe_sub,       \* user -> row of stripe_user_subscriptions
  req,              \* request -> state of one invocation of the handler
                    \*            that reached the usage query
  rejected,         \* the latest response given before the usage query
  sync,             \* user -> state of syncUserPlanWithSubscription
  trueUsed,         \* user -> counter at the start plus the generations
                    \*         delivered since (history)
  pol,              \* inputs and results of the pure policy functions
  sum,              \* the invocation of the summarization handler
  documents,        \* document id -> NoDoc or [user_id, title, content]
  editor,           \* the Editor page
  dash,             \* the Dashboard page
  call,             \* one generation request and the way it is made
  usageCall,        \* caller -> state of its getUsage
  chat,             \* the chat panel
  auth_users,       \* the users of auth.users
  usage_rows,       \* user -> number of user_usage rows with that user_id
  hook,             \* the useSubscription hook of the Dashboard page
  docEditor,        \* the DocEditor component of the Editor page
  exportCall        \* one export request and its answer

\* the state beside the generation pipeline and the policy inputs
\* the state added beside the pages of the first release
viewVars == <<hook, docEditor>>
restVars == <<auth_users, usage_rows, viewVars, exportCall>>
appVars == <<sum, documents, editor, dash, call, usageCall, chat, restVars>>
vars == <<GEMINI_API_KEY, user_usage, stripe_sub, req, rejected, sync, trueUsed, pol, appVars>>
pipeVars == <<GEMINI_API_KEY, user_usage, stripe_sub, req, rejected, sync, trueUsed, appVars>>

NoRow == [exists |-> FALSE, ai_generations_used |-> 0, plan |-> "free"]
UsageRow(used, plan) == [exists |-> TRUE, ai_generations_used |-> used, plan |-> plan]

\* counter values a stored row starts from
InitUsed == {0, 9}

\* pc: idle (not arrived), select, fetch, update (awaiting that call), done
\* snapUsed: ai_generations_used as read; called: the completion call was
\* issued; wrote: the usage update was applied; overlap (history): another
\* request or write of the same user fell into this request's lifetime
\* the completion response holds no non-empty candidate text
NoCandidateText(resp) ==
  \/ resp.kind # "http" \/ ~resp.ok
  \/ resp.candidates # "some" \/ ~resp.content \/ resp.parts # "some"
  \/ resp.text.t # "str"
  \/ resp.text = JsStr(<<>>)

\* empty (history): the completion response the request went on with held
\* no non-empty candidate text
IdleReq ==
  [pc |-> "idle", user |-> "", snapUsed |-> 0,
   resp |-> NoResponse, called |-> FALSE, wrote |-> FALSE, overlap |-> FALSE,
   empty |-> FALSE]

\* a finished request keeps its response and what it did; the success
\* response carries usage.used = snapUsed + 1
Finished(r, resp, called, wrote) ==
  [IdleReq EXCEPT !.pc = "done", !.user = r.user, !.resp = resp,
                  !.called = called, !.wrote = wrote,
                  !.snapUsed = IF resp = Success THEN r.snapUsed ELSE 0,
                  !.empty = r.empty]

\* seenUsed, overlapped (history): the counter the row held when the sync
\* started, and whether the last sync ended on a row whose counter had been
\* written in the meantime
IdleSync ==
  [pc |-> "idle", newPlan |-> "free", seenUsed |-> 0, overlapped |-> FALSE]

PolIdle ==
  [plan |-> "free", used |-> 0, usageLoaded |-> TRUE, done |-> {}, zero |-> FALSE,
   climit |-> 0, cdocs |-> 0, slimit |-> JsUndefined,
   canUseAI |-> FALSE, deny |-> FALSE]

(***************************************************************************)
(* Documents, pages and client-side calls                                   *)
(***************************************************************************)
\* a second account: it owns documents and signs in, but makes no generation
\* request
Accounts == Users \cup {"u2"}
DocIds == 1..NDoc
Titles == {"Untitled Document", "NDA"}
Contents == {"", "text"}
NoDoc == [exists |-> FALSE, user_id |-> "", title |-> "", content |-> ""]
\* the row of an id that was deleted: gen_random_uuid() gives no id twice
Deleted == [exists |-> FALSE, user_id |-> "", title |-> "", content |-> "deleted"]
Doc(u, title, content) ==
  [exists |-> TRUE, user_id |-> u, title |-> title, content |-> content]

\* Editor: open (mounted), user (useAuth), docId (useParams), document
\* (useState, NoDoc for null), loading, fetching (a fetchDocument is awaited),
\* toast (the last notification of DocEditor.handleSave);
\* history: saved, savedId (what the last save that reported success was
\* given, by whom, for which id), applied (that save changed a row), touched
\* (the document was written or deleted after it), reread (what the first
\* fetchDocument of the same user after it returned: not_found, or the row
\* with the same or with another title and content)
EditorClosed ==
  [open |-> FALSE, user |-> "", docId |-> 0, document |-> NoDoc,
   loading |-> FALSE, fetching |-> FALSE, toast |-> "none",
   saved |-> NoDoc, savedId |-> 0, applied |-> FALSE, touched |-> FALSE,
   reread |-> "none"]

\* Dashboard: user (useAuth) and, as history, one entry per
\* handleDeleteDocument call: the id, whether the row was there, whether the
\* database call failed, and the toast shown
DashIdle == [user |-> "u1", deletes |-> <<>>]

\* one generation request: via "http" (any client) or "lib" (generateDocument);
\* pc: ready, sent (the request went out), local (the library returned
\* without sending)
CallIdle ==
  [pc |-> "idle", via |-> "http", method |-> "POST", auth |-> "valid",
   body |-> MalformedBody]

\* getUsage callers: the subscription library and the Dashboard page
UsageCallers == {"getUserUsageData", "fetchUserUsage"}
\* pc: idle, select, insert, done; user: the session's user ("" for none);
\* result: what the call returned or put in the page state (NoRow for
\* null); found: the select returned a row; inserted: the insert created
\* the row; error: none, auth, db (the call failed) or conflict (the insert
\* met a row with the same user_id); history: before (the row the select
\* met)
IdleUsageCall ==
  [pc |-> "idle", user |-> "", found |-> FALSE, result |-> NoRow,
   inserted |-> FALSE, error |-> "none", before |-> NoRow]

\* chat panel: isOpen, isLoading, pending (the requests whose generateDocument
\* promise has not settled) and, as history, abandoned (the requests that
\* were in flight when the panel was closed)
\* lastGeneratedContent, documentSaved and lastDocumentId (0 for null) are
\* the panel's record of the latest generated text; generated (history) is
\* the set of requests whose generated text the panel received
ChatOpen ==
  [isOpen |-> TRUE, isLoading |-> FALSE, pending |-> {}, abandoned |-> {},
   lastGeneratedContent |-> "", documentSaved |-> FALSE, lastDocumentId |-> 0,
   generated |-> {}]

\* useSubscription. usageCheck starts as { canUseAI: false,
\* canCreateDocument: false, ... }; subscription and usage start as null
\* (NoSubscription, NoRow); loading starts TRUE. interval: the 30 s timer is
\* set; pc: idle, or the call the refresh in flight is waiting for (sync,
\* data, check). History: before (subscription, usage and usageCheck when
\* the refresh in flight began), refreshed (a refresh has ended), failed
\* (every call of the latest refresh failed)
DenyAll == [canUseAI |-> FALSE, canCreateDocument |-> FALSE]
HookLoaded(h) ==
  [subscription |-> h.subscription, usage |-> h.usage, usageCheck |-> h.usageCheck]
HookIdle ==
  [mounted |-> FALSE, interval |-> FALSE, pc |-> "idle", loading |-> TRUE,
   error |-> FALSE, subscription |-> NoSubscription, usage |-> NoRow,
   usageCheck |-> DenyAll, synced |-> FALSE,
   before |-> [subscription |-> NoSubscription, usage |-> NoRow,
               usageCheck |-> DenyAll],
   refreshed |-> FALSE, failed |-> FALSE]

\* DocEditor. title, content, hasUnsavedChanges and isSaving are its state,
\* initialTitle and initialContent its props; autoSaveTimer: the 30 s timeout
\* is set; saving: the handleSave in flight with the title and content it
\* was called with. History: typedDuring (the text was changed while the
\* save was in flight)
NoSave == [active |-> FALSE, title |-> "", content |-> "", auto |-> FALSE]
DocEditorIdle ==
  [mounted |-> FALSE, title |-> "", content |-> "", initialTitle |-> "",
   initialContent |-> "", hasUnsavedChanges |-> FALSE, isSaving |-> FALSE,
   autoSaveTimer |-> FALSE, saving |-> NoSave, toast |-> "none",
   typedDuring |-> FALSE]

\* an export request: which code answers it (the handler that reads
\* google_tokens, the handler that reads the sign-in provider, or the
\* DocEditor's handleExportToGoogle), its inputs, and the answer
ExportIdle ==
  [pc |-> "idle", version |-> "token", method |-> "POST", auth |-> "valid",
   fieldsOk |-> TRUE, owned |-> TRUE, provider |-> "google",
   token |-> "valid", tokensDbOk |-> TRUE, resp |-> NoResponse,
   toast |-> "none"]

ViewIdle ==
  /\ hook = HookIdle
  /\ docEditor = DocEditorIdle
  /\ exportCall = ExportIdle

\* every user has signed up, and the table holds one row for each usage row
RestIdle ==
  /\ auth_users = Users
  /\ usage_rows = [u \in Users |-> IF user_usage[u].exists THEN 1 ELSE 0]
  /\ ViewIdle

AppIdle ==
  /\ sum = IdleReq
  /\ documents = [d \in DocIds |-> NoDoc]
  /\ editor = EditorClosed
  /\ dash = DashIdle
  /\ call = CallIdle
  /\ usageCall = [c \in UsageCallers |-> IdleUsageCall]
  /\ chat = ChatOpen

\* the pipeline before any request, with no row drawn
PipelineIdle ==
  /\ AppIdle
  /\ GEMINI_API_KEY = TRUE
  /\ user_usage = [u \in Users |-> UsageRow(0, "free")]
  /\ stripe_sub = [u \in Users |-> NoSubscription]
  /\ req = [r \in Reqs |-> IdleReq]
  /\ rejected = NoResponse
  /\ sync = [u \in Users |-> IdleSync]
  /\ trueUsed = [u \in Users |-> 0]

\* rows as the signup trigger and a completed plan sync leave them
PipelineInit ==
  /\ GEMINI_API_KEY \in BOOLEAN
  /\ stripe_sub \in [Users -> SubInputs]
  /\ \E rows \in [Users -> {NoRow} \cup {UsageRow(n, "free") : n \in InitUsed}] :
       user_usage = [u \in Users |->
          IF rows[u].exists
          THEN UsageRow(rows[u].ai_generations_used, PlanForSubscription(stripe_sub[u]))
          ELSE NoRow]
  /\ req = [r \in Reqs |-> IdleReq]
  /\ rejected = NoResponse
  /\ sync = [u \in Users |-> IdleSync]
  /\ trueUsed = [u \in Users |-> user_usage[u].ai_generations_used]
  /\ pol = PolIdle

Init == PipelineInit /\ AppIdle /\ RestIdle

InFlight(r) == req[r].pc \notin {"idle", "done"}

(***************************************************************************)
(* The generation proxy (Deno.serve handler)                                *)
(***************************************************************************)
\* a request of user u arrives and takes the first free slot r; everything
\* up to the usage query
Accept(r, u, method, auth, body) ==
  /\ req[r].pc = "idle"
  /\ IF r = 1 THEN TRUE ELSE req[r - 1].pc # "idle"
  /\ LET out == HandlerPrefix(method, GEMINI_API_KEY, auth, body)
         others == {q \in Reqs \ {r} : InFlight(q) /\ req[q].user = u}
     IN IF out = Continue
        THEN /\ req' = [q \in Reqs |->
                  IF q = r THEN [req[r] EXCEPT !.pc = "select", !.user = u,
                                               !.overlap = others # {}]
                  ELSE IF q \in others THEN [req[q] EXCEPT !.overlap = TRUE]
                  ELSE req[q]]
             /\ UNCHANGED rejected
        ELSE /\ rejected' = out
             /\ UNCHANGED req
  /\ UNCHANGED <<restVars, GEMINI_API_KEY, user_usage, stripe_sub, sync, trueUsed, pol,
                 sum, documents, editor, dash, usageCall>>

\* a request from any client
Receive(r, u, method, auth, body) ==
  /\ Accept(r, u, method, auth, body)
  /\ UNCHANGED <<call, chat>>

\* the usage query returns; limit check; the completion call is issued
ReadUsage(r, dbOk) ==
  /\ req[r].pc = "select"
  /\ LET row == user_usage[req[r].user]
         userLimit == ServerUserLimit(ServerLimitsLookup(row.plan))
     IN IF ~dbOk \/ ~row.exists
        THEN req' = [req EXCEPT ![r] = Finished(req[r], UsageCheckFailed, FALSE, FALSE)]
        ELSE IF ServerDenies(userLimit, row.ai_generations_used)
        THEN req' = [req EXCEPT ![r] = Finished(req[r], LimitReached, FALSE, FALSE)]
        ELSE req' = [req EXCEPT ![r].pc = "fetch", ![r].called = TRUE,
                                ![r].snapUsed = row.ai_generations_used]
  /\ UNCHANGED <<GEMINI_API_KEY, user_usage, stripe_sub, rejected, sync, trueUsed, pol, appVars>>

\* variant: the counter is incremented as soon as the completion service has
\* answered, before the answer is validated
GeminiRespond_IncrementFirst(r, resp) ==
  /\ req[r].pc = "fetch"
  /\ LET out == CompletionResult(resp)
         u == req[r].user
     IN /\ user_usage' = [user_usage EXCEPT ![u].ai_generations_used =
                            UsageWriteValue(req[r].snapUsed, @)]
        /\ IF out = Continue
           THEN /\ req' = [req EXCEPT ![r] = Finished(req[r], Success, TRUE, TRUE)]
                /\ trueUsed' = [trueUsed EXCEPT ![u] = @ + 1]
           ELSE /\ req' = [req EXCEPT ![r] = Finished(req[r], out, TRUE, TRUE)]
                /\ UNCHANGED trueUsed
  /\ UNCHANGED <<GEMINI_API_KEY, stripe_sub, rejected, sync, pol, appVars>>

\* the completion service answers; validation; the usage update is issued
GeminiRespond(r, resp) ==
  /\ req[r].pc = "fetch"
  /\ LET out == CompletionResult(resp)
     IN IF out = Continue
        THEN req' = [req EXCEPT ![r].pc = "update",
                                ![r].empty = NoCandidateText(resp)]
        ELSE req' = [req EXCEPT ![r] = Finished(req[r], out, TRUE, FALSE)]
  /\ UNCHANGED <<GEMINI_API_KEY, user_usage, stripe_sub, rejected, sync, trueUsed, pol, appVars>>

\* the usage update is applied (or fails, which is only logged); 200
UpdateUsage(r, dbOk) ==
  /\ req[r].pc = "update"
  /\ LET u == req[r].user
         row == user_usage[u]
         applied == dbOk /\ row.exists
     IN /\ user_usage' = [user_usage EXCEPT ![u] =
              IF applied
              THEN [row EXCEPT !.ai_generations_used =
                       UsageWriteValue(req[r].snapUsed, row.ai_generations_used)]
              ELSE row]
        /\ req' = [req EXCEPT ![r] = Finished(req[r], Success, TRUE, applied)]
        /\ trueUsed' = [trueUsed EXCEPT ![u] = @ + 1]
  /\ UNCHANGED <<GEMINI_API_KEY, stripe_sub, rejected, sync, pol, appVars>>

(***************************************************************************)
(* The user's own session                                                   *)
(***************************************************************************)
\* every request in flight of user u has now been overlapped by a client write
Interfered(u) ==
  [q \in Reqs |-> IF InFlight(q) /\ req[q].user = u
                  THEN [req[q] EXCEPT !.overlap = TRUE] ELSE req[q]]

\* syncUserPlanWithSubscription: read the subscription, derive newPlan
SyncReadSubscription(u) ==
  /\ sync[u].pc = "idle"
  /\ u \in auth_users
  /\ sync' = [sync EXCEPT ![u] =
        [pc |-> "upsert", newPlan |-> PlanForSubscription(stripe_sub[u]),
         seenUsed |-> user_usage[u].ai_generations_used, overlapped |-> FALSE]]
  /\ UNCHANGED <<GEMINI_API_KEY, user_usage, stripe_sub, req, rejected, trueUsed, pol, appVars>>

\* variant: user_id is not declared UNIQUE
InsertAccepted_NoUnique(u) == u \in auth_users

\* user_usage.user_id REFERENCES auth.users(id) ... UNIQUE NOT NULL: an
\* insert of a row for u is accepted when u exists and has no row
InsertAccepted(u) == u \in auth_users /\ usage_rows[u] = 0

\* variant: the upsert replaces the row, every column not given taking its
\* default
UpsertedRow_Defaults(row, newPlan) == UsageRow(0, newPlan)

\* upsert {user_id, plan, updated_at} on conflict user_id: the row of the
\* user gets the plan, its other columns stay; without a row one is
\* inserted with the column defaults
UpsertedRow(row, newPlan) ==
  IF row.exists THEN [row EXCEPT !.plan = newPlan] ELSE UsageRow(0, newPlan)

\* ... the upsert returns; an error is logged and false returned
SyncUpsert(u, dbOk) ==
  /\ sync[u].pc = "upsert"
  /\ sync' = [sync EXCEPT ![u] =
        [IdleSync EXCEPT !.overlapped =
           /\ user_usage[u].exists
           /\ user_usage[u].ai_generations_used # sync[u].seenUsed]]
  /\ IF dbOk /\ (user_usage[u].exists \/ InsertAccepted(u))
     THEN /\ user_usage' = [user_usage EXCEPT ![u] =
                UpsertedRow(@, sync[u].newPlan)]
          /\ usage_rows' = [usage_rows EXCEPT ![u] =
                IF user_usage[u].exists THEN @ ELSE @ + 1]
          /\ req' = Interfered(u)
     ELSE UNCHANGED <<user_usage, usage_rows, req>>
  /\ UNCHANGED <<GEMINI_API_KEY, stripe_sub, rejected, trueUsed, pol, sum,
                 documents, editor, dash, call, usageCall, chat, auth_users, exportCall,
                 viewVars>>

\* what a user may write into their own row: the plan, the counter, or both
OwnRowWrites(row) ==
  {UsageRow(n, p) : n \in {0, row.ai_generations_used}, p \in Plans} \ {row}

\* "Users can update own usage": an update of the caller's own row that the
\* table constraints (plan in Plans, ai_generations_used >= 0) accept
ClientUpdateOwnRow(u, new) ==
  /\ user_usage[u].exists
  /\ new.ai_generations_used >= 0
  /\ new.plan \in Plans
  /\ user_usage' = [user_usage EXCEPT ![u] = new]
  /\ req' = Interfered(u)
  /\ UNCHANGED <<GEMINI_API_KEY, stripe_sub, rejected, sync, trueUsed, pol, appVars>>

(***************************************************************************)
(* The summarization proxy (gemini-summarize handler)                       *)
(***************************************************************************)
\* { document_id, content, summary_type = 'brief' }; document_id 0 stands for
\* an absent one
SummarizeBody(document_id, content) ==
  [malformed |-> FALSE, document_id |-> document_id, content |-> content]
MalformedSummarizeBody == [malformed |-> TRUE, document_id |-> 0, content |-> ""]
SummarizeBodies ==
  {MalformedSummarizeBody}
    \cup {SummarizeBody(d, c) : d \in {0} \cup DocIds, c \in Contents}

NotFound == ErrorResponse(404, "Document not found or access denied")

\* the handler up to the document query
SummarizePrefix(method, keyConfigured, auth, body) ==
  IF method = "OPTIONS" THEN Preflight
  ELSE IF method # "POST" THEN MethodNotAllowed
  ELSE IF ~keyConfigured THEN NotConfigured
  ELSE IF auth = "missing" THEN InternalError
  ELSE IF auth = "invalid" THEN Unauthorized
  ELSE IF body.malformed THEN InternalError
  \* !document_id || !content
  ELSE IF body.document_id = 0 \/ body.content = "" THEN InvalidInput
  ELSE Continue

\* what the handler does with the completion response:
\* candidates?.[0]?.content?.parts?.[0]?.text || 'Unable to generate summary'
\* accepts every answer that is ok
SummaryResult(resp) ==
  IF resp.kind = "throw" THEN InternalError
  ELSE IF ~resp.ok THEN GenerationFailed
  ELSE Continue

SumFinished(resp, called, wrote) ==
  [IdleReq EXCEPT !.pc = "done", !.user = sum.user, !.resp = resp,
                  !.called = called, !.wrote = wrote, !.empty = sum.empty]

\* a summarization request of user u for document body.document_id arrives;
\* everything up to the document query; snapUsed holds the document id until
\* the usage query returns
SumReceive(u, method, auth, body) ==
  /\ sum.pc = "idle"
  /\ LET out == SummarizePrefix(method, GEMINI_API_KEY, auth, body)
     IN IF out = Continue
        THEN /\ sum' = [sum EXCEPT !.pc = "document", !.user = u,
                                   !.snapUsed = body.document_id]
             /\ req' = Interfered(u)
             /\ UNCHANGED rejected
        ELSE /\ rejected' = out
             /\ UNCHANGED <<sum, req>>
  /\ UNCHANGED <<restVars, GEMINI_API_KEY, user_usage, stripe_sub, sync, trueUsed, pol,
                 documents, editor, dash, call, usageCall, chat>>

\* the document query (id and user_id must match) returns; the usage query
\* is issued
SumCheckDocument(dbOk) ==
  /\ sum.pc = "document"
  /\ LET doc == documents[sum.snapUsed]
     IN IF dbOk /\ doc.exists /\ doc.user_id = sum.user
        THEN sum' = [sum EXCEPT !.pc = "select", !.snapUsed = 0]
        ELSE sum' = SumFinished(NotFound, FALSE, FALSE)
  /\ UNCHANGED <<restVars, GEMINI_API_KEY, user_usage, stripe_sub, req, rejected, sync,
                 trueUsed, pol, documents, editor, dash, call, usageCall, chat>>

\* the usage query returns; limit check; the completion call is issued
SumReadUsage(dbOk) ==
  /\ sum.pc = "select"
  /\ LET row == user_usage[sum.user]
         userLimit == ServerUserLimit(ServerLimitsLookup(row.plan))
     IN IF ~dbOk \/ ~row.exists
        THEN sum' = SumFinished(UsageCheckFailed, FALSE, FALSE)
        ELSE IF ServerDenies(userLimit, row.ai_generations_used)
        THEN sum' = SumFinished(LimitReached, FALSE, FALSE)
        ELSE sum' = [sum EXCEPT !.pc = "fetch", !.called = TRUE,
                                !.snapUsed = row.ai_generations_used]
  /\ UNCHANGED <<restVars, GEMINI_API_KEY, user_usage, stripe_sub, req, rejected, sync,
                 trueUsed, pol, documents, editor, dash, call, usageCall, chat>>

\* the completion service answers; the usage update is issued
SumGeminiRespond(resp) ==
  /\ sum.pc = "fetch"
  /\ LET out == SummaryResult(resp)
     IN IF out = Continue
        THEN sum' = [sum EXCEPT !.pc = "update",
                                !.empty = NoCandidateText(resp)]
        ELSE sum' = SumFinished(out, TRUE, FALSE)
  /\ UNCHANGED <<restVars, GEMINI_API_KEY, user_usage, stripe_sub, req, rejected, sync,
                 trueUsed, pol, documents, editor, dash, call, usageCall, chat>>

\* the usage update is applied (or fails, which is only logged); 200
SumUpdateUsage(dbOk) ==
  /\ sum.pc = "update"
  /\ LET u == sum.user
         row == user_usage[u]
         applied == dbOk /\ row.exists
     IN /\ user_usage' = [user_usage EXCEPT ![u] =
              IF applied
              THEN [row EXCEPT !.ai_generations_used =
                       UsageWriteValue(sum.snapUsed, row.ai_generations_used)]
              ELSE row]
        /\ sum' = SumFinished(Success, TRUE, applied)
        /\ trueUsed' = [trueUsed EXCEPT ![u] = @ + 1]
        /\ req' = Interfered(u)
  /\ UNCHANGED <<restVars, GEMINI_API_KEY, stripe_sub, rejected, sync, pol,
                 documents, editor, dash, call, usageCall, chat>>

SummarizeNext ==
  \/ \E u \in Users, m \in HttpMethods, a \in AuthHeaders, b \in SummarizeBodies :
       SumReceive(u, m, a, b)
  \/ \E ok \in BOOLEAN : SumCheckDocument(ok)
  \/ \E ok \in BOOLEAN : SumReadUsage(ok)
  \/ \E resp \in GeminiResponses : SumGeminiRespond(resp)
  \/ \E ok \in BOOLEAN : SumUpdateUsage(ok)

(***************************************************************************)
(* The Dashboard page: documents                                            *)
(***************************************************************************)
\* createNewDocument: insert {user_id, 'Untitled Document', ''}; the id is a
\* fresh one
CreateNewDocument(d, dbOk) ==
  /\ documents[d] = NoDoc
  /\ IF dbOk
     THEN documents' = [documents EXCEPT ![d] = Doc(dash.user, "Untitled Document", "")]
     ELSE UNCHANGED documents
  /\ UNCHANGED <<restVars, GEMINI_API_KEY, user_usage, stripe_sub, req, rejected, sync,
                 trueUsed, pol, sum, editor, dash, call, usageCall, chat>>

\* variant: deleting a row that is not there is reported as a failure
DeleteToast_MissingIsError(dbOk, matched) ==
  IF dbOk /\ matched THEN "success" ELSE "error"

\* what handleDeleteDocument shows: the error toast when the call returned an
\* error, the success toast otherwise, whether or not a row matched
DeleteToast(dbOk, matched) == IF dbOk THEN "success" ELSE "error"

\* handleDeleteDocument(documentId): delete where id and user_id match
HandleDeleteDocument(d, dbOk) ==
  /\ Len(dash.deletes) < MaxDeletes
  /\ LET row == documents[d]
         matched == row.exists /\ row.user_id = dash.user
     IN /\ documents' = [documents EXCEPT ![d] = IF dbOk /\ matched THEN Deleted ELSE @]
        /\ dash' = [dash EXCEPT !.deletes = Append(@,
                      [id |-> d, matched |-> matched, failed |-> ~dbOk,
                       toast |-> DeleteToast(dbOk, matched)])]
        /\ editor' = [editor EXCEPT !.touched =
                        @ \/ (dbOk /\ matched /\ editor.savedId = d)]
  /\ UNCHANGED <<restVars, GEMINI_API_KEY, user_usage, stripe_sub, req, rejected, sync,
                 trueUsed, pol, sum, call, usageCall, chat>>

(***************************************************************************)
(* The Editor page                                                          *)
(***************************************************************************)
\* a row of documents as the session of user u sees it: the select policy
\* and the user_id filter hide every other row
Visible(d, u) == documents[d].exists /\ documents[d].user_id = u

\* the page is opened for document d in the session of user u; useEffect
\* calls fetchDocument
OpenEditor(u, d) ==
  /\ ~editor.fetching
  /\ editor' = [editor EXCEPT !.open = TRUE, !.user = u, !.docId = d,
                              !.document = NoDoc, !.loading = TRUE,
                              !.fetching = TRUE, !.toast = "none"]
  /\ UNCHANGED <<restVars, GEMINI_API_KEY, user_usage, stripe_sub, req, rejected, sync,
                 trueUsed, pol, sum, documents, dash, call, usageCall, chat>>

\* the session changes while the page is open; useEffect([docId, user])
\* calls fetchDocument again
SessionChange(u) ==
  /\ editor.open /\ ~editor.fetching /\ u # editor.user
  /\ editor' = [editor EXCEPT !.user = u, !.fetching = TRUE]
  /\ UNCHANGED <<restVars, GEMINI_API_KEY, user_usage, stripe_sub, req, rejected, sync,
                 trueUsed, pol, sum, documents, dash, call, usageCall, chat>>

\* fetchDocument returns: the row, or PGRST116 / another error, on which the
\* page navigates to the dashboard
FetchDocument(dbOk) ==
  /\ editor.fetching
  /\ LET d == editor.docId
         first == editor.savedId = d /\ editor.saved.user_id = editor.user
                    /\ editor.reread = "none"
     IN IF dbOk /\ Visible(d, editor.user)
        THEN editor' = [editor EXCEPT !.document = documents[d],
                          !.loading = FALSE, !.fetching = FALSE,
                          !.reread =
                            IF ~first THEN @
                            ELSE IF /\ documents[d].title = editor.saved.title
                                    /\ documents[d].content = editor.saved.content
                                 THEN "same" ELSE "differs"]
        ELSE editor' = [editor EXCEPT !.open = FALSE, !.document = NoDoc,
                          !.loading = FALSE, !.fetching = FALSE,
                          !.reread = IF first /\ dbOk THEN "not_found" ELSE @]
  /\ UNCHANGED <<restVars, GEMINI_API_KEY, user_usage, stripe_sub, req, rejected, sync,
                 trueUsed, pol, sum, documents, dash, call, usageCall, chat>>

\* variant: the save stores the title only
SavedRow_TitleOnly(row, title, content) == [row EXCEPT !.title = title]

\* .update({ title, content, updated_at })
SavedRow(row, title, content) == [row EXCEPT !.title = title, !.content = content]

\* DocEditor.handleSave -> Editor.handleSave(title, content): update where id
\* and user_id match; an error is thrown only when the call returns one
HandleSave(title, content, dbOk) ==
  /\ editor.open /\ ~editor.loading /\ editor.document.exists
  /\ LET d == editor.docId
         matched == Visible(d, editor.user)
     IN IF dbOk
        THEN /\ documents' = [documents EXCEPT ![d] =
                   IF matched THEN SavedRow(@, title, content) ELSE @]
             /\ editor' = [editor EXCEPT
                   !.document = SavedRow(@, title, content),
                   !.toast = "success",
                   !.saved = Doc(editor.user, title, content), !.savedId = d,
                   !.applied = matched, !.touched = FALSE,
                   !.reread = "none"]
        ELSE /\ editor' = [editor EXCEPT !.toast = "error"]
             /\ UNCHANGED documents
  /\ UNCHANGED <<auth_users, exportCall, usage_rows, hook, GEMINI_API_KEY, user_usage, stripe_sub, req, rejected, sync,
                 trueUsed, pol, sum, dash, call, usageCall, chat>>

DocsInit ==
  /\ PipelineIdle
  /\ pol = PolIdle
  /\ RestIdle

DocsNext ==
  \/ \E d \in DocIds, ok \in BOOLEAN : CreateNewDocument(d, ok)
  \/ \E d \in DocIds, ok \in BOOLEAN : HandleDeleteDocument(d, ok)
  \/ \E u \in Accounts, d \in DocIds : OpenEditor(u, d)
  \/ \E u \in Accounts : SessionChange(u)
  \/ \E ok \in BOOLEAN : FetchDocument(ok)
  \/ \E t \in Titles, c \in Contents, ok \in BOOLEAN :
       HandleSave(t, c, ok) /\ UNCHANGED docEditor

\* documents, the Dashboard page and the Editor page
SpecDocs == DocsInit /\ [][DocsNext]_vars

EditorNext ==
  \/ \E d \in DocIds, ok \in BOOLEAN : CreateNewDocument(d, ok)
  \/ \E d \in DocIds, ok \in BOOLEAN : HandleDeleteDocument(d, ok)
  \/ \E d \in DocIds : OpenEditor(dash.user, d)
  \/ \E ok \in BOOLEAN : FetchDocument(ok)
  \/ \E t \in Titles, c \in Contents, ok \in BOOLEAN :
       HandleSave(t, c, ok) /\ UNCHANGED docEditor

\* one user's Dashboard and Editor pages
SpecEditor == DocsInit /\ [][EditorNext]_vars

\* the Dashboard page in the session of either account
DashboardInit ==
  /\ PipelineInit
  /\ sum = IdleReq
  /\ documents = [d \in DocIds |-> NoDoc]
  /\ editor = EditorClosed
  /\ dash \in [user : Accounts, deletes : {<<>>}]
  /\ call = CallIdle
  /\ usageCall = [c \in UsageCallers |-> IdleUsageCall]
  /\ chat = ChatOpen
  /\ RestIdle

DashboardNext ==
  \/ \E d \in DocIds, ok \in BOOLEAN : CreateNewDocument(d, ok)
  \/ \E d \in DocIds, ok \in BOOLEAN : HandleDeleteDocument(d, ok)

\* creating and deleting documents from the Dashboard page
SpecDashboard == DashboardInit /\ [][DashboardNext]_vars

ProxyNext ==
  \E r \in Reqs :
    \/ \E u \in Users, m \in HttpMethods, a \in AuthHeaders, b \in Bodies :
         Receive(r, u, m, a, b)
    \/ \E ok \in BOOLEAN : ReadUsage(r, ok)
    \/ \E resp \in GeminiResponses : GeminiRespond(r, resp)
    \/ \E ok \in BOOLEAN : UpdateUsage(r, ok)

ClientNext ==
  \E u \in Users :
    \/ SyncReadSubscription(u)
    \/ \E ok \in BOOLEAN : SyncUpsert(u, ok)
    \/ \E new \in OwnRowWrites(user_usage[u]) : ClientUpdateOwnRow(u, new)

Next == ProxyNext \/ ClientNext

\* the proxy, the plan sync and the user's own writes
Spec == Init /\ [][Next]_vars

\* generation requests as the only writers of the usage rows
SpecProxy == Init /\ [][ProxyNext]_vars

(***************************************************************************)
(* One generation request, made directly or through generateDocument        *)
(***************************************************************************)
\* texts of at most MaxLen characters, blank or not
Chars == {" ", "x"}
Texts == UNION {[1..n -> Chars] : n \in 0..MaxLen}
FieldVals == {JsAbsent, JsNumber} \cup {JsStr(s) : s \in Texts}
AllBodies == {MalformedBody} \cup {Body(p, d) : p \in FieldVals, d \in FieldVals}

\* via "lib": auth tells whether getSession() returns a session
CallInputs ==
  {[pc |-> "ready", via |-> "http", method |-> m, auth |-> a, body |-> b] :
     m \in HttpMethods, a \in AuthHeaders, b \in AllBodies}
  \cup
  {[pc |-> "ready", via |-> "lib", method |-> "POST", auth |-> a, body |-> b] :
     a \in {"valid", "missing"}, b \in AllBodies \ {MalformedBody}}

\* the request is sent as it is
Submit(u) ==
  /\ call.pc = "ready" /\ call.via = "http"
  /\ Accept(1, u, call.method, call.auth, call.body)
  /\ call' = [call EXCEPT !.pc = "sent"]
  /\ UNCHANGED chat

\* generateDocument(prompt, documentType): validation, session, then fetch
\* with the trimmed fields and the session's token
GenerateDocument(u) ==
  /\ call.pc = "ready" /\ call.via = "lib"
  /\ IF InvalidText(call.body.prompt) \/ InvalidText(call.body.document_type)
        \/ call.auth = "missing"
     THEN /\ call' = [call EXCEPT !.pc = "local"]
          /\ UNCHANGED <<restVars, GEMINI_API_KEY, user_usage, stripe_sub, req, rejected,
                         sync, trueUsed, pol, sum, documents, editor, dash,
                         usageCall, chat>>
     ELSE /\ Accept(1, u, "POST", "valid",
                    Body(JsStr(Trim(call.body.prompt.s)),
                         JsStr(Trim(call.body.document_type.s))))
          /\ call' = [call EXCEPT !.pc = "sent"]
          /\ UNCHANGED chat

\* the call that request r awaits returns
HandlerStep(r) ==
  \/ \E ok \in BOOLEAN : ReadUsage(r, ok)
  \/ \E resp \in GeminiResponses : GeminiRespond(r, resp)
  \/ \E ok \in BOOLEAN : UpdateUsage(r, ok)

HandlerNext == \E r \in Reqs : HandlerStep(r)

RequestInit ==
  /\ PipelineInit
  /\ call \in CallInputs
  /\ sum = IdleReq
  /\ documents = [d \in DocIds |-> NoDoc]
  /\ editor = EditorClosed
  /\ dash = DashIdle
  /\ usageCall = [c \in UsageCallers |-> IdleUsageCall]
  /\ chat = ChatOpen
  /\ RestIdle

RequestNext ==
  \/ \E u \in Users : Submit(u)
  \/ \E u \in Users : GenerateDocument(u)
  \/ HandlerNext

\* a single generation request on any input, with no other activity
SpecRequest == RequestInit /\ [][RequestNext]_vars

(***************************************************************************)
(* The chat panel (EnhancedAIChat)                                          *)
(***************************************************************************)
\* handleSendMessage: not while loading; the trimmed message and the
\* detected document type go to generateDocument
HandleSendMessage(r, u) ==
  /\ chat.isOpen /\ ~chat.isLoading
  /\ Accept(r, u, "POST", "valid", Body(JsStr(<<"x">>), JsStr(<<"x">>)))
  /\ req'[r].pc # "idle"
  /\ chat' = [chat EXCEPT !.isLoading = TRUE, !.pending = @ \cup {r}]
  /\ UNCHANGED call

\* the promise of generateDocument settles: finally { setIsLoading(false) }
\* with result.success and result.content the panel keeps the text and
\* offers the actions Save Document, Save as Draft, Edit Now, Download
ChatSettle(r) ==
  /\ r \in chat.pending /\ req[r].pc = "done"
  /\ chat' = IF req[r].resp = Success
             THEN [chat EXCEPT !.isLoading = FALSE, !.pending = @ \ {r},
                               !.lastGeneratedContent = "text",
                               !.documentSaved = FALSE,
                               !.generated = @ \cup {r}]
             ELSE [chat EXCEPT !.isLoading = FALSE, !.pending = @ \ {r}]
  /\ UNCHANGED <<restVars, GEMINI_API_KEY, user_usage, stripe_sub, req, rejected, sync,
                 trueUsed, pol, sum, documents, editor, dash, call, usageCall>>

\* variant: closing the panel aborts the requests in flight
HandleCloseChat_Abort ==
  /\ chat.isOpen
  /\ chat' = [chat EXCEPT !.isOpen = FALSE, !.isLoading = FALSE,
                          !.abandoned = @ \cup {r \in Reqs : InFlight(r)}]
  /\ req' = [r \in Reqs |->
              IF InFlight(r) THEN Finished(req[r], NoResponse, req[r].called, FALSE)
              ELSE req[r]]
  /\ UNCHANGED <<restVars, GEMINI_API_KEY, user_usage, stripe_sub, rejected, sync,
                 trueUsed, pol, sum, documents, editor, dash, call, usageCall>>

\* handleCloseChat: setIsOpen(false), setIsLoading(false); nothing is sent
\* to the proxy and no fetch is aborted
HandleCloseChat ==
  /\ chat.isOpen
  /\ chat' = [chat EXCEPT !.isOpen = FALSE, !.isLoading = FALSE,
                          !.abandoned = @ \cup {r \in Reqs : InFlight(r)}]
  /\ UNCHANGED <<restVars, GEMINI_API_KEY, user_usage, stripe_sub, req, rejected, sync,
                 trueUsed, pol, sum, documents, editor, dash, call, usageCall>>

\* the panel is opened again
OpenChat ==
  /\ ~chat.isOpen
  /\ chat' = [chat EXCEPT !.isOpen = TRUE]
  /\ UNCHANGED <<restVars, GEMINI_API_KEY, user_usage, stripe_sub, req, rejected, sync,
                 trueUsed, pol, sum, documents, editor, dash, call, usageCall>>

ChatNext ==
  \/ \E r \in Reqs, u \in Users : HandleSendMessage(r, u)
  \/ \E r \in Reqs : ChatSettle(r)
  \/ HandleCloseChat
  \/ OpenChat
  \/ HandlerNext

\* saveDocument / saveAsDraft / editDocument of the signed-in user u:
\* createDocumentInDatabase inserts {user_id, title, content} and returns
\* the id, or null when the insert fails
SaveDocument(d, u, title, dbOk) ==
  /\ chat.isOpen /\ chat.lastGeneratedContent # ""
  /\ documents[d] = NoDoc
  /\ IF dbOk
     THEN /\ documents' = [documents EXCEPT ![d] =
                Doc(u, title, chat.lastGeneratedContent)]
          /\ chat' = [chat EXCEPT !.documentSaved = TRUE, !.lastDocumentId = d]
     ELSE UNCHANGED <<documents, chat>>
  /\ UNCHANGED <<restVars, GEMINI_API_KEY, user_usage, stripe_sub, req,
                 rejected, sync, trueUsed, pol, sum, editor, dash, call,
                 usageCall>>

ChatDocsNext ==
  \/ ChatNext
  \/ \E d \in DocIds, u \in Users, ok \in BOOLEAN : SaveDocument(d, u, "NDA", ok)

\* every awaited call of a request returns in the end (the database and the
\* completion service answer or the call fails)
HandlerFairness == \A r \in Reqs : WF_vars(HandlerStep(r))

\* the chat is offered to a signed-in user of a configured deployment
ChatInit == Init /\ GEMINI_API_KEY

\* the chat panel and the requests it sends
SpecChat == ChatInit /\ [][ChatNext]_vars /\ HandlerFairness

\* the chat panel, its requests and the documents it saves
SpecChatDocs == ChatInit /\ [][ChatDocsNext]_vars

SyncNext ==
  \E u \in Users :
    \/ SyncReadSubscription(u)
    \/ \E ok \in BOOLEAN : SyncUpsert(u, ok)

MeterNext ==
  \/ ProxyNext
  \/ SummarizeNext
  \/ SyncNext
  \/ \E d \in DocIds, ok \in BOOLEAN : CreateNewDocument(d, ok)

\* generation, summarization and plan sync of a user, in any interleaving
SpecMeter == Init /\ [][MeterNext]_vars

PlanSyncNext ==
  \/ \E r \in Reqs, u \in Users :
       Receive(r, u, "POST", "valid", Body(JsStr(<<"x">>), JsStr(<<"x">>)))
  \/ HandlerNext
  \/ SyncNext

\* well-formed generation requests and plan syncs of a user, in any
\* interleaving
SpecPlanSync == Init /\ [][PlanSyncNext]_vars

(***************************************************************************)
(* getUsage: getUserUsageData of the subscription library and              *)
(* fetchUserUsage of the Dashboard page                                     *)
(***************************************************************************)
\* the session of the caller: a user or none
Sessions == Users \cup {""}

InitialUsage_Pro == UsageRow(0, "pro")

\* the row the call inserts for a user that has none
InitialUsage == UsageRow(0, "free")

\* supabase.auth.getUser() / useAuth(): without a user the call ends with
\* null and has not touched the table
GetUsageStart(c, u) ==
  /\ usageCall[c].pc = "idle"
  /\ usageCall' = [usageCall EXCEPT ![c] =
        IF u = "" \/ u \notin auth_users
        THEN [IdleUsageCall EXCEPT !.pc = "done", !.error = "auth"]
        ELSE [IdleUsageCall EXCEPT !.pc = "select", !.user = u]]
  /\ UNCHANGED <<restVars, GEMINI_API_KEY, user_usage, stripe_sub, req, rejected, sync,
                 trueUsed, pol, sum, documents, editor, dash, call, chat>>

\* select * from user_usage where user_id = user .single(): an error other
\* than "no row" ends the call with null
GetUsageSelect(c, dbOk) ==
  /\ usageCall[c].pc = "select"
  /\ LET row == user_usage[usageCall[c].user] IN
       usageCall' = [usageCall EXCEPT ![c] =
         IF ~dbOk THEN [@ EXCEPT !.pc = "done", !.error = "db"]
         ELSE IF row.exists
              THEN [@ EXCEPT !.pc = "done", !.found = TRUE, !.result = row,
                             !.before = row]
              ELSE [@ EXCEPT !.pc = "insert", !.before = NoRow]]
  /\ UNCHANGED <<restVars, GEMINI_API_KEY, user_usage, stripe_sub, req, rejected, sync,
                 trueUsed, pol, sum, documents, editor, dash, call, chat>>

\* insert {user_id, ai_generations_used: 0, plan: 'free'} .select().single():
\* user_id is the primary key, so the insert fails when a row has appeared
\* since the select; a failed insert ends the call with null
GetUsageInsert(c, dbOk) ==
  /\ usageCall[c].pc = "insert"
  /\ LET u == usageCall[c].user IN
       IF dbOk /\ InsertAccepted(u)
       THEN /\ user_usage' = [user_usage EXCEPT ![u] = InitialUsage]
            /\ usage_rows' = [usage_rows EXCEPT ![u] = @ + 1]
            /\ usageCall' = [usageCall EXCEPT ![c] =
                  [@ EXCEPT !.pc = "done", !.inserted = TRUE,
                            !.result = InitialUsage]]
       ELSE /\ usageCall' = [usageCall EXCEPT ![c] =
                  [@ EXCEPT !.pc = "done",
                            !.error = IF dbOk THEN "conflict" ELSE "db"]]
            /\ UNCHANGED <<user_usage, usage_rows>>
  /\ UNCHANGED <<auth_users, exportCall, viewVars, GEMINI_API_KEY, stripe_sub, req, rejected, sync,
                 trueUsed, pol, sum, documents, editor, dash, call, chat>>

GetUsageNext ==
  \E c \in UsageCallers :
    \/ \E u \in Sessions : GetUsageStart(c, u)
    \/ \E ok \in BOOLEAN : GetUsageSelect(c, ok)
    \/ \E ok \in BOOLEAN : GetUsageInsert(c, ok)

UsageNext == GetUsageNext \/ SyncNext

\* the two getUsage callers and the plan sync of a user, in any interleaving
SpecUsage == Init /\ [][UsageNext]_vars

(***************************************************************************)
(* The user_usage table: signup trigger, lazy creation, plan sync and the   *)
(* deletion of a user                                                       *)
(***************************************************************************)
\* create_user_usage, AFTER INSERT ON auth.users: INSERT ... VALUES (NEW.id,
\* 0, 'free') ON CONFLICT (user_id) DO NOTHING
Signup(u) ==
  /\ u \notin auth_users
  /\ auth_users' = auth_users \cup {u}
  /\ IF usage_rows[u] = 0
     THEN /\ user_usage' = [user_usage EXCEPT ![u] = UsageRow(0, "free")]
          /\ usage_rows' = [usage_rows EXCEPT ![u] = 1]
     ELSE UNCHANGED <<user_usage, usage_rows>>
  /\ UNCHANGED <<GEMINI_API_KEY, stripe_sub, req, rejected, sync, trueUsed,
                 pol, sum, documents, editor, dash, call, usageCall, chat,
                 viewVars, exportCall>>

\* the user is removed from auth.users: ON DELETE CASCADE removes the usage
\* rows and the documents of the user
DeleteUser(u) ==
  /\ u \in auth_users
  /\ auth_users' = auth_users \ {u}
  /\ user_usage' = [user_usage EXCEPT ![u] = NoRow]
  /\ usage_rows' = [usage_rows EXCEPT ![u] = 0]
  /\ trueUsed' = [trueUsed EXCEPT ![u] = 0]
  /\ documents' = [d \in DOMAIN documents |->
        IF documents[d].exists /\ documents[d].user_id = u
        THEN Deleted ELSE documents[d]]
  /\ req' = Interfered(u)
  /\ UNCHANGED <<GEMINI_API_KEY, stripe_sub, rejected, sync, pol, sum,
                 editor, dash, call, usageCall, chat, viewVars, exportCall>>

\* some users have signed up; only they can have a usage row
RowsInit ==
  /\ PipelineInit
  /\ AppIdle
  /\ auth_users \in SUBSET Users
  /\ \A u \in Users \ auth_users : ~user_usage[u].exists
  /\ usage_rows = [u \in Users |-> IF user_usage[u].exists THEN 1 ELSE 0]
  /\ ViewIdle

RowsNext ==
  \/ \E u \in Users : Signup(u)
  \/ \E u \in Users : DeleteUser(u)
  \/ GetUsageNext
  \/ SyncNext

\* the writers of the user_usage table that create or remove rows
SpecRows == RowsInit /\ [][RowsNext]_vars

(***************************************************************************)
(* Billing bridge: the webhook for customer.subscription.deleted            *)
(***************************************************************************)
\* the mirrored subscription of a known customer stops being active, and the
\* plan on the usage row is recomputed from it and persisted
WebhookSubscriptionDeleted(u) ==
  /\ stripe_sub[u].subscription_status = "active"
  /\ LET sub == Subscription("canceled", stripe_sub[u].price_id) IN
       /\ stripe_sub' = [stripe_sub EXCEPT ![u] = sub]
       /\ user_usage' = [user_usage EXCEPT ![u] =
             IF @.exists THEN [@ EXCEPT !.plan = PlanForSubscription(sub)]
             ELSE @]
  /\ req' = Interfered(u)
  /\ UNCHANGED <<GEMINI_API_KEY, rejected, sync, trueUsed, pol, appVars>>

BillingNext ==
  \/ \E u \in Users : WebhookSubscriptionDeleted(u)
  \/ SyncNext
  \/ GetUsageNext

\* the webhook, the plan sync of the client and getUsage, in any interleaving
SpecBilling == Init /\ [][BillingNext]_vars

(***************************************************************************)
(* useSubscription: refresh, the 30 s poll and its cleanup                  *)
(***************************************************************************)
\* what getUserUsageData returns (NoRow for null) and the row it leaves
GetUsageReturn(u, dbOk) ==
  IF ~dbOk THEN NoRow
  ELSE IF user_usage[u].exists THEN user_usage[u]
  ELSE IF InsertAccepted(u) THEN InitialUsage
  ELSE NoRow
UsageAfterGet(u, dbOk) ==
  IF dbOk /\ ~user_usage[u].exists /\ InsertAccepted(u) THEN InitialUsage
  ELSE user_usage[u]
RowsAfterGet(u, dbOk) ==
  IF dbOk /\ ~user_usage[u].exists /\ InsertAccepted(u)
  THEN [usage_rows EXCEPT ![u] = @ + 1]
  ELSE usage_rows

\* select count of documents where user_id = u
DocCount(u) == Cardinality({d \in DOMAIN documents : Visible(d, u)})

\* checkUsageLimits: the two flags, or the catch block's answer
CheckUsageLimits(usage, count, dbOk) ==
  IF dbOk /\ usage.exists
  THEN LET limits == getPlanLimits(usage.plan) IN
       [canUseAI |-> ClientCanUseAI(limits.aiGenerations, usage.ai_generations_used),
        canCreateDocument |-> limits.documents = -1 \/ count < limits.documents]
  ELSE DenyAll

\* refresh(): setLoading(true), setError(null), then refreshSubscriptionData
HookStart(h) ==
  [h EXCEPT !.pc = "sync", !.loading = TRUE, !.error = FALSE,
            !.before = HookLoaded(h), !.refreshed = FALSE, !.failed = TRUE]

\* variant: the cleanup leaves the interval set
HookCleanup_NoClear(h) == [h EXCEPT !.mounted = FALSE]

\* return () => clearInterval(interval)
HookCleanup(h) == [h EXCEPT !.mounted = FALSE, !.interval = FALSE]

\* the page mounts: initial refresh, and setInterval(refresh, 30000)
HookMount ==
  /\ ~hook.mounted /\ hook.pc = "idle"
  /\ hook' = HookStart([HookIdle EXCEPT !.mounted = TRUE, !.interval = TRUE])
  /\ UNCHANGED <<GEMINI_API_KEY, user_usage, stripe_sub, req, rejected, sync,
                 trueUsed, pol, sum, documents, editor, dash, call, usageCall,
                 chat, auth_users, exportCall, usage_rows, docEditor>>

\* the interval fires
HookTick ==
  /\ hook.interval /\ hook.pc = "idle"
  /\ hook' = HookStart(hook)
  /\ UNCHANGED <<GEMINI_API_KEY, user_usage, stripe_sub, req, rejected, sync,
                 trueUsed, pol, sum, documents, editor, dash, call, usageCall,
                 chat, auth_users, exportCall, usage_rows, docEditor>>

HookUnmount ==
  /\ hook.mounted
  /\ hook' = HookCleanup(hook)
  /\ UNCHANGED <<GEMINI_API_KEY, user_usage, stripe_sub, req, rejected, sync,
                 trueUsed, pol, sum, documents, editor, dash, call, usageCall,
                 chat, auth_users, exportCall, usage_rows, docEditor>>

\* refreshSubscriptionData, first await: syncUserPlanWithSubscription
RefreshSync(dbOk) ==
  /\ hook.pc = "sync"
  /\ LET u == dash.user
         applied == dbOk /\ (user_usage[u].exists \/ InsertAccepted(u))
         newPlan == PlanForSubscription(stripe_sub[u])
     IN /\ hook' = [hook EXCEPT !.pc = "data", !.synced = applied,
                                !.failed = @ /\ ~applied]
        /\ IF applied
           THEN /\ user_usage' = [user_usage EXCEPT ![u] =
                      UpsertedRow(@, newPlan)]
                /\ usage_rows' = [usage_rows EXCEPT ![u] =
                      IF user_usage[u].exists THEN @ ELSE @ + 1]
                /\ req' = Interfered(u)
           ELSE UNCHANGED <<user_usage, usage_rows, req>>
  /\ UNCHANGED <<GEMINI_API_KEY, stripe_sub, rejected, sync, trueUsed, pol,
                 sum, documents, editor, dash, call, usageCall, chat,
                 auth_users, exportCall, docEditor>>

\* refreshSubscriptionData, second await: getUserSubscriptionStatus and
\* getUserUsageData; a null result leaves the state it would replace
RefreshData(subOk, usageOk) ==
  /\ hook.pc = "data"
  /\ LET u == dash.user
         sub == IF subOk THEN stripe_sub[u] ELSE NoSubscription
         usage == GetUsageReturn(u, usageOk)
     IN /\ hook' = [hook EXCEPT !.pc = "check",
                      !.subscription = IF sub # NoSubscription THEN sub ELSE @,
                      !.usage = IF usage.exists THEN usage ELSE @,
                      !.failed = @ /\ ~subOk /\ ~usage.exists]
        /\ user_usage' = [user_usage EXCEPT ![u] = UsageAfterGet(u, usageOk)]
        /\ usage_rows' = RowsAfterGet(u, usageOk)
  /\ UNCHANGED <<GEMINI_API_KEY, stripe_sub, req, rejected, sync, trueUsed,
                 pol, sum, documents, editor, dash, call, usageCall, chat,
                 auth_users, exportCall, docEditor>>

\* checkUsageLimits, setUsageCheck(limits), finally setLoading(false)
RefreshCheck(dbOk) ==
  /\ hook.pc = "check"
  /\ LET u == dash.user
         usage == GetUsageReturn(u, dbOk)
     IN /\ hook' = [hook EXCEPT !.pc = "idle", !.loading = FALSE,
                      !.usageCheck = CheckUsageLimits(usage, DocCount(u), dbOk),
                      !.refreshed = TRUE,
                      !.failed = @ /\ ~(dbOk /\ usage.exists)]
        /\ user_usage' = [user_usage EXCEPT ![u] = UsageAfterGet(u, dbOk)]
        /\ usage_rows' = RowsAfterGet(u, dbOk)
  /\ UNCHANGED <<GEMINI_API_KEY, stripe_sub, req, rejected, sync, trueUsed,
                 pol, sum, documents, editor, dash, call, usageCall, chat,
                 auth_users, exportCall, docEditor>>

HookNext ==
  \/ HookMount
  \/ HookTick
  \/ HookUnmount
  \/ \E ok \in BOOLEAN : RefreshSync(ok)
  \/ \E subOk \in BOOLEAN, usageOk \in BOOLEAN : RefreshData(subOk, usageOk)
  \/ \E ok \in BOOLEAN : RefreshCheck(ok)

(***************************************************************************)
(* DocEditor: typing, manual save, auto-save and its cleanup                *)
(***************************************************************************)
\* return () => clearTimeout(autoSaveTimer)
DocCleanup(e) == [e EXCEPT !.mounted = FALSE, !.autoSaveTimer = FALSE]

\* the Editor page renders DocEditor with the document it has loaded
DocMount ==
  /\ ~docEditor.mounted /\ ~docEditor.saving.active
  /\ editor.open /\ ~editor.loading /\ editor.document.exists
  /\ docEditor' = [DocEditorIdle EXCEPT
        !.mounted = TRUE,
        !.title = editor.document.title, !.content = editor.document.content,
        !.initialTitle = editor.document.title,
        !.initialContent = editor.document.content]
  /\ UNCHANGED <<GEMINI_API_KEY, user_usage, stripe_sub, req, rejected, sync,
                 trueUsed, pol, sum, documents, editor, dash, call, usageCall,
                 chat, auth_users, exportCall, usage_rows, hook>>

DocUnmount ==
  /\ docEditor.mounted
  /\ docEditor' = DocCleanup(docEditor)
  /\ UNCHANGED <<GEMINI_API_KEY, user_usage, stripe_sub, req, rejected, sync,
                 trueUsed, pol, sum, documents, editor, dash, call, usageCall,
                 chat, auth_users, exportCall, usage_rows, hook>>

\* the user edits the title or the content: hasUnsavedChanges is recomputed
\* against the props, and the auto-save effect sets its timeout again
DocType(t, c) ==
  /\ docEditor.mounted
  /\ <<t, c>> # <<docEditor.title, docEditor.content>>
  /\ LET unsaved == t # docEditor.initialTitle \/ c # docEditor.initialContent IN
       docEditor' = [docEditor EXCEPT
          !.title = t, !.content = c, !.hasUnsavedChanges = unsaved,
          !.autoSaveTimer = unsaved,
          !.typedDuring = /\ docEditor.saving.active
                          /\ <<t, c>> # <<docEditor.saving.title,
                                          docEditor.saving.content>>]
  /\ UNCHANGED <<GEMINI_API_KEY, user_usage, stripe_sub, req, rejected, sync,
                 trueUsed, pol, sum, documents, editor, dash, call, usageCall,
                 chat, auth_users, exportCall, usage_rows, hook>>

\* handleSave(isAutoSave) is called, by the confirmed Save button (enabled
\* with unsaved changes and no save in flight) or by the timeout, and awaits
\* onSave(title, content)
DocSaveStart(auto) ==
  /\ ~docEditor.saving.active
  /\ IF auto THEN docEditor.autoSaveTimer
     ELSE docEditor.mounted /\ docEditor.hasUnsavedChanges
  /\ docEditor' = [docEditor EXCEPT
        !.isSaving = TRUE,
        !.saving = [active |-> TRUE, title |-> docEditor.title,
                    content |-> docEditor.content, auto |-> auto],
        !.autoSaveTimer = IF auto THEN FALSE ELSE @,
        !.typedDuring = FALSE]
  /\ UNCHANGED <<GEMINI_API_KEY, user_usage, stripe_sub, req, rejected, sync,
                 trueUsed, pol, sum, documents, editor, dash, call, usageCall,
                 chat, auth_users, exportCall, usage_rows, hook>>

\* onSave returns. On success the page has replaced title and content of its
\* document, so the props change when they differ from the loaded ones, the
\* state-sync effect copies them into title and content, and
\* hasUnsavedChanges ends FALSE; on failure only the toast is shown
DocSaveEnd(dbOk) ==
  /\ docEditor.saving.active
  /\ HandleSave(docEditor.saving.title, docEditor.saving.content, dbOk)
  /\ LET sv == docEditor.saving
         changed == sv.title # docEditor.initialTitle
                      \/ sv.content # docEditor.initialContent
     IN docEditor' =
          IF dbOk
          THEN [docEditor EXCEPT
                  !.initialTitle = sv.title, !.initialContent = sv.content,
                  !.title = IF changed THEN sv.title ELSE @,
                  !.content = IF changed THEN sv.content ELSE @,
                  !.hasUnsavedChanges = FALSE, !.autoSaveTimer = FALSE,
                  !.isSaving = FALSE, !.saving = NoSave,
                  !.toast = IF sv.auto THEN @ ELSE "success"]
          ELSE [docEditor EXCEPT !.isSaving = FALSE, !.saving = NoSave,
                                 !.toast = "error"]

DocEditorNext ==
  \/ DocMount
  \/ DocUnmount
  \/ \E t \in Titles, c \in Contents : DocType(t, c)
  \/ \E auto \in BOOLEAN : DocSaveStart(auto)
  \/ \E ok \in BOOLEAN : DocSaveEnd(ok)

HookPageNext ==
  \/ HookNext
  \/ \E d \in DocIds, ok \in BOOLEAN : CreateNewDocument(d, ok)

\* the Dashboard page with its hook
SpecHook == DocsInit /\ [][HookPageNext]_vars

DocEditorPageNext ==
  \/ DocEditorNext
  \/ \E d \in DocIds, ok \in BOOLEAN : CreateNewDocument(d, ok)
  \/ \E d \in DocIds : ~docEditor.mounted /\ OpenEditor(dash.user, d)
  \/ \E ok \in BOOLEAN : ~docEditor.mounted /\ FetchDocument(ok)

\* the Editor page with its DocEditor
SpecDocEditor == DocsInit /\ [][DocEditorPageNext]_vars

\* the user has created a document and the Editor page has loaded it
TimersInit ==
  /\ GEMINI_API_KEY = TRUE
  /\ user_usage = [u \in Users |-> UsageRow(0, "free")]
  /\ stripe_sub = [u \in Users |-> NoSubscription]
  /\ req = [r \in Reqs |-> IdleReq]
  /\ rejected = NoResponse
  /\ sync = [u \in Users |-> IdleSync]
  /\ trueUsed = [u \in Users |-> 0]
  /\ pol = PolIdle
  /\ sum = IdleReq
  /\ documents = [d \in DocIds |->
        IF d = 1 THEN Doc(DashIdle.user, "Untitled Document", "") ELSE NoDoc]
  /\ editor = [EditorClosed EXCEPT !.open = TRUE, !.user = DashIdle.user,
                  !.docId = 1,
                  !.document = Doc(DashIdle.user, "Untitled Document", "")]
  /\ dash = DashIdle
  /\ call = CallIdle
  /\ usageCall = [c \in UsageCallers |-> IdleUsageCall]
  /\ chat = ChatOpen
  /\ RestIdle

TimersNext == HookNext \/ DocEditorNext

\* the two periodic requests: the hook's poll and the DocEditor's auto-save
SpecTimers == TimersInit /\ [][TimersNext]_vars

(***************************************************************************)
(* The document limit: the creations of the Dashboard page and of the chat  *)
(***************************************************************************)
\* as many ids as the free plan allows documents, and one more
LimitIds == 1..(getPlanLimits("free").documents + 1)

\* the id the next insert generates: ids are handed out once, in order
FreshIds ==
  {d \in DOMAIN documents :
     /\ documents[d] = NoDoc
     /\ \A e \in DOMAIN documents : e < d => documents[e] # NoDoc}

\* createNewDocument of the Dashboard that reads the hook: it returns with a
\* warning toast unless usageCheck.canCreateDocument, and inserts otherwise
CreateNewDocumentIfAllowed(d, dbOk) ==
  /\ hook.mounted
  /\ hook.usageCheck.canCreateDocument
  /\ CreateNewDocument(d, dbOk)

\* a free user without documents, signed in, whose first chat generation has
\* succeeded and has been counted
LimitInit ==
  /\ GEMINI_API_KEY = TRUE
  /\ user_usage = [u \in Users |-> UsageRow(1, "free")]
  /\ stripe_sub = [u \in Users |-> NoSubscription]
  /\ req = [r \in Reqs |->
        IF r = 1
        THEN Finished([IdleReq EXCEPT !.user = DashIdle.user], Success, TRUE, TRUE)
        ELSE IdleReq]
  /\ rejected = NoResponse
  /\ sync = [u \in Users |-> IdleSync]
  /\ trueUsed = [u \in Users |-> 1]
  /\ pol = PolIdle
  /\ sum = IdleReq
  /\ documents = [d \in LimitIds |-> NoDoc]
  /\ editor = EditorClosed
  /\ dash = DashIdle
  /\ call = CallIdle
  /\ usageCall = [c \in UsageCallers |-> IdleUsageCall]
  /\ chat = [ChatOpen EXCEPT !.lastGeneratedContent = "text", !.generated = {1}]
  /\ RestIdle

LimitNext ==
  \/ HookNext
  \/ \E d \in FreshIds, ok \in BOOLEAN : CreateNewDocument(d, ok)
  \/ \E d \in FreshIds, ok \in BOOLEAN : CreateNewDocumentIfAllowed(d, ok)
  \/ \E d \in FreshIds, ok \in BOOLEAN :
       SaveDocument(d, DashIdle.user, "NDA", ok)

\* every way the application creates a document, and the hook's refreshes
SpecLimit == LimitInit /\ [][LimitNext]_vars

(***************************************************************************)
(* Export to Google Workspace: the google-docs-export handler in its two    *)
(* versions and the DocEditor's handleExportToGoogle                        *)
(***************************************************************************)
ExportVersions == {"token", "provider", "client"}
\* the google_tokens row of the caller: none, or a token that is valid,
\* expired with a refresh token, or expired without one
TokenStates == {"none", "valid", "expired_refreshable", "expired"}
Providers == {"google", "email"}

NotConnected == ErrorResponse(401, "Google account not connected")
TokenExpired == ErrorResponse(401, "Google token expired")
MissingFields == ErrorResponse(400, "Missing required fields")

\* both handler versions up to the ownership check: method, bearer token
\* (a missing header throws into the catch block), required fields, document
ExportPrefix(x) ==
  IF x.method # "POST" THEN MethodNotAllowed
  ELSE IF x.auth = "missing" THEN InternalError
  ELSE IF x.auth # "valid" THEN Unauthorized
  ELSE IF ~x.fieldsOk THEN MissingFields
  ELSE IF ~x.owned THEN NotFound
  ELSE Continue

\* the version that reads google_tokens: no row (or a failed query), then an
\* expired token without refresh token, else the placeholder success
ExportByToken(x) ==
  IF ExportPrefix(x) # Continue THEN ExportPrefix(x)
  ELSE IF ~x.tokensDbOk \/ x.token = "none" THEN NotConnected
  ELSE IF x.token = "expired" THEN TokenExpired
  ELSE Success

\* the version that reads user.app_metadata.provider
ExportByProvider(x) ==
  IF ExportPrefix(x) # Continue THEN ExportPrefix(x)
  ELSE IF x.provider # "google" THEN NotConnected
  ELSE Success

\* DocEditor.handleExportToGoogle: isGoogleConnected is provider === 'google'
ExportToast(x) == IF x.provider # "google" THEN "warning" ELSE "success"

ExportInit ==
  /\ PipelineIdle
  /\ pol = PolIdle
  /\ auth_users = Users
  /\ usage_rows = [u \in Users |-> 1]
  /\ hook = HookIdle
  /\ docEditor = DocEditorIdle
  /\ exportCall \in [pc : {"sent"}, version : ExportVersions,
                     method : {"POST", "GET"},
                     auth : {"valid", "invalid", "missing"},
                     fieldsOk : BOOLEAN, owned : BOOLEAN,
                     provider : Providers, token : TokenStates,
                     tokensDbOk : BOOLEAN, resp : {NoResponse},
                     toast : {"none"}]

\* the handler answers the request
ExportRespond ==
  /\ exportCall.pc = "sent" /\ exportCall.version # "client"
  /\ exportCall' = [exportCall EXCEPT !.pc = "done",
        !.resp = IF exportCall.version = "token" THEN ExportByToken(exportCall)
                 ELSE ExportByProvider(exportCall)]
  /\ UNCHANGED <<GEMINI_API_KEY, user_usage, stripe_sub, req, rejected, sync,
                 trueUsed, pol, sum, documents, editor, dash, call, usageCall,
                 chat, auth_users, usage_rows, viewVars>>

\* the DocEditor shows its toast; no request is sent
HandleExportToGoogle ==
  /\ exportCall.pc = "sent" /\ exportCall.version = "client"
  /\ exportCall' = [exportCall EXCEPT !.pc = "done",
                                      !.toast = ExportToast(exportCall)]
  /\ UNCHANGED <<GEMINI_API_KEY, user_usage, stripe_sub, req, rejected, sync,
                 trueUsed, pol, sum, documents, editor, dash, call, usageCall,
                 chat, auth_users, usage_rows, viewVars>>

ExportNext == ExportRespond \/ HandleExportToGoogle

\* export requests on drawn inputs
SpecExport == ExportInit /\ [][ExportNext]_vars

(***************************************************************************)
(* The pure policy functions applied to drawn (plan, used) pairs            *)
(***************************************************************************)
\* pol.done: the evaluations made so far on the drawn (plan, used) pair
PolSteps == {"lookupClient", "lookupServer", "checkClient", "checkServer"}

PolicyInit ==
  /\ PipelineIdle
  /\ pol \in [plan : PlanInputs, used : 0..MaxUsed, usageLoaded : BOOLEAN,
              done : {{}}, zero : {FALSE}, climit : {0}, cdocs : {0},
              slimit : {JsUndefined}, canUseAI : {FALSE}, deny : {FALSE}]
  /\ RestIdle

LookupClient ==
  /\ "lookupClient" \notin pol.done
  /\ pol' = [pol EXCEPT
       !.climit = HookLimits(pol.usageLoaded, pol.plan).aiGenerations,
       !.cdocs = HookLimits(pol.usageLoaded, pol.plan).documents,
       !.done = @ \cup {"lookupClient"}]
  /\ UNCHANGED pipeVars

LookupServer ==
  /\ "lookupServer" \notin pol.done
  /\ pol' = [pol EXCEPT !.slimit = ServerLimitsLookup(pol.plan),
                        !.done = @ \cup {"lookupServer"}]
  /\ UNCHANGED pipeVars

CheckClient ==
  /\ "lookupClient" \in pol.done
  /\ "checkClient" \notin pol.done
  /\ pol' = [pol EXCEPT !.canUseAI = ClientCanUseAI(pol.climit, pol.used),
                        !.done = @ \cup {"checkClient"}]
  /\ UNCHANGED pipeVars

CheckServer ==
  /\ "lookupServer" \in pol.done
  /\ "checkServer" \notin pol.done
  /\ pol' = [pol EXCEPT !.deny = ServerDenies(ServerUserLimit(pol.slimit), pol.used),
                        !.done = @ \cup {"checkServer"}]
  /\ UNCHANGED pipeVars

\* a plan whose AI-generation limit is 0 in both tables
ConfigureZeroLimit ==
  /\ pol.done = {}
  /\ pol.plan \in Plans /\ pol.usageLoaded
  /\ pol' = [pol EXCEPT !.zero = TRUE, !.climit = 0, !.slimit = JsNum(0),
                        !.done = {"lookupClient", "lookupServer"}]
  /\ UNCHANGED pipeVars

PolicyNext == LookupClient \/ LookupServer \/ CheckClient \/ CheckServer

\* the shipped limit tables
SpecPolicy == PolicyInit /\ [][PolicyNext]_vars

PolicyZeroNext == ConfigureZeroLimit \/ CheckClient \/ CheckServer

\* limit tables in which the drawn plan has the limit 0
SpecPolicyZero == PolicyInit /\ [][PolicyZeroNext]_vars

(***************************************************************************)
(* Properties                                                               *)
(***************************************************************************)
FailureStatus == {401, 400, 429, 500}

\* request r ends in this step
Ends(r) == req[r].pc # "done" /\ req'[r].pc = "done"

\* the requests of user u that were answered with success
Delivered(u) ==
  {r \in Reqs : req[r].pc = "done" /\ req[r].user = u /\ req[r].resp = Success}

\* no request is in flight
Quiescent == \A r \in Reqs : ~InFlight(r)

\* the counter user u started with: trueUsed starts as the stored counter and
\* grows by one with every success
StartUsed(u) ==
  trueUsed[u] - Cardinality(Delivered(u))
    - (IF sum.pc = "done" /\ sum.user = u /\ sum.resp = Success THEN 1 ELSE 0)

\* C1: a request that ends on a failure path (401, 400, 429 or 500, among them
\* every rejection of the completion service's answer) has written nothing:
\* the step that answers it leaves every usage row as it was, and no earlier
\* step of the request has applied a write.
C1_NoIncrementOnFailure ==
  [][/\ \A r \in Reqs :
          Ends(r) /\ req'[r].resp.status \in FailureStatus
            => user_usage' = user_usage /\ ~req'[r].wrote
     /\ rejected' # rejected => user_usage' = user_usage]_vars

\* C1 witness: a request failed after the completion call was made, and the
\* counter still has its initial value
C1_Witness ==
  \E r \in Reqs :
    /\ req[r].pc = "done" /\ req[r].resp = GenerationFailed /\ req[r].called
    /\ user_usage[req[r].user].exists
    /\ user_usage[req[r].user].ai_generations_used = StartUsed(req[r].user)

\* C2 (as claimed): a request that is answered with success and that no other
\* request or write of the same user overlaps raises the stored counter by
\* exactly 1.
C2_SuccessIncrementsByOne ==
  [][\A r \in Reqs :
       Ends(r) /\ req'[r].resp = Success /\ ~req[r].overlap
         => user_usage'[req[r].user].ai_generations_used
              = user_usage[req[r].user].ai_generations_used + 1]_vars

\* the limit a plan grants, finite or the sentinel
PlanLimit(plan) == ServerLimits[plan]

\* C3: when the usage query of a request returns a row of a finite-limit plan
\* whose counter has reached the limit, the request is answered 429 with
\* limit_reached and ends without a completion call.
C3_LimitReachedNoCall ==
  [][\A r \in Reqs :
       LET row == user_usage[req[r].user]
       IN /\ req[r].pc = "select" /\ req'[r].pc # "select"
          /\ row.exists
          /\ PlanLimit(row.plan) # Unlimited
          /\ row.ai_generations_used >= PlanLimit(row.plan)
          \* the query itself did not fail
          /\ req'[r].resp # UsageCheckFailed
          => /\ req'[r].pc = "done"
             /\ req'[r].resp = LimitReached
             /\ ~req'[r].called]_vars

\* C3 witness: a request was answered 429 limit_reached without a call
C3_Witness ==
  \E r \in Reqs :
    /\ req[r].pc = "done" /\ req[r].resp = LimitReached /\ ~req[r].called
    /\ user_usage[req[r].user].plan = "free"
    /\ user_usage[req[r].user].ai_generations_used = 1

\* C4 (as claimed): once the requests of a user are over and the write of each
\* successful one has been applied, the stored counter is the initial counter
\* plus the number of successes.
C4_AtomicIncrement ==
  \A u \in Users :
    /\ Quiescent
    /\ Delivered(u) # {}
    /\ \A r \in Delivered(u) : req[r].wrote
    => user_usage[u].ai_generations_used = StartUsed(u) + Cardinality(Delivered(u))

\* C4 (amended): with the generation requests as the only writers, the stored
\* counter is never more than the number of successes above its initial value,
\* and it is at least 1 above it once some successes exist and the write of
\* each has been applied.
C4_AtMostOnePerSuccess ==
  \A u \in Users :
    /\ user_usage[u].ai_generations_used
         <= StartUsed(u) + Cardinality(Delivered(u))
    /\ (Delivered(u) # {} /\ \A r \in Delivered(u) : req[r].wrote)
         => user_usage[u].ai_generations_used >= StartUsed(u) + 1

\* C4 witness: two requests of a user succeeded and both writes were applied
C4_Witness ==
  \E u \in Users :
    /\ Quiescent
    /\ Cardinality(Delivered(u)) = 2
    /\ \A r \in Delivered(u) : req[r].wrote

\* two requests of u that both read the counter 0 and both succeeded, each
\* with its write applied
BothPassedAtZero(u, r, q) ==
  /\ r # q /\ r \in Delivered(u) /\ q \in Delivered(u)
  /\ req[r].snapUsed = 0 /\ req[q].snapUsed = 0
  /\ req[r].wrote /\ req[q].wrote

\* C5: when two requests of a free-plan user both read the counter 0 (both
\* pass the limit check before either writes) and both succeed, the user has
\* got more generations than the limit of 1 and the counter stands at 1.
C5_RaceUnderCounts ==
  \A u \in Users : \A r, q \in Reqs :
    BothPassedAtZero(u, r, q) /\ user_usage[u].plan = "free"
      => /\ user_usage[u].ai_generations_used = 1
         /\ Cardinality(Delivered(u)) > PlanLimit("free")

\* C5 witness: that interleaving is reachable
C5_Witness ==
  \E u \in Users : \E r, q \in Reqs :
    /\ BothPassedAtZero(u, r, q)
    /\ user_usage[u].plan = "free"
    /\ StartUsed(u) = 0
    /\ user_usage[u].ai_generations_used = 1

\* the limit check applied to the plan the subscription maps to and to the
\* generations the user has really had
EntitledDenies(u) ==
  ServerDenies(ServerUserLimit(ServerLimitsLookup(PlanForSubscription(stripe_sub[u]))),
               trueUsed[u])

\* C6 (as claimed): the proxy never lets a request pass the limit check when
\* the limit of the plan the user's subscription maps to, applied to the
\* generations the user has really had, denies.
C6_ProxyDoesNotTrustClient ==
  [][\A r \in Reqs :
       req[r].pc = "select" /\ req'[r].pc = "fetch"
         => ~EntitledDenies(req[r].user)]_vars

\* C7: for a plan of the closed set, either check denies when the counter has
\* reached a finite limit and allows for every counter when the plan's limit
\* is the unlimited sentinel.
C7_DenyAtLimitAllowUnlimited ==
  pol.plan \in Plans /\ pol.usageLoaded =>
    /\ "checkClient" \in pol.done =>
         LET limit == getPlanLimits(pol.plan).aiGenerations
         IN /\ (limit # Unlimited /\ pol.used >= limit) => ~pol.canUseAI
            /\ limit = Unlimited => pol.canUseAI
    /\ "checkServer" \in pol.done =>
         LET limit == PlanLimit(pol.plan)
         IN /\ (limit # Unlimited /\ pol.used >= limit) => pol.deny
            /\ limit = Unlimited => ~pol.deny

\* C7 witness: both checks were made for pro at its limit of 10 and both deny
C7_Witness ==
  /\ pol.plan = "pro" /\ pol.used = 10 /\ pol.usageLoaded
  /\ {"checkClient", "checkServer"} \subseteq pol.done
  /\ ~pol.canUseAI /\ pol.deny

C9_ClientServerAgree ==
  /\ pol.plan \in Plans /\ pol.usageLoaded
  /\ {"checkClient", "checkServer"} \subseteq pol.done
  => (pol.canUseAI <=> ~pol.deny)

\* C9 witness: both checks were made on a pro row one below its limit and
\* both allow
C9_Witness ==
  /\ pol.plan = "pro" /\ pol.used = 9 /\ pol.usageLoaded
  /\ {"checkClient", "checkServer"} \subseteq pol.done
  /\ pol.canUseAI /\ ~pol.deny

C11_CounterMonotone ==
  [][\A u \in Users :
       /\ user_usage'[u].ai_generations_used >= user_usage[u].ai_generations_used
       /\ user_usage'[u].ai_generations_used >= 0]_vars

\* no request has reached the usage query: no usage read, no completion
\* call, no counter write
NoPipelineActivity == \A r \in Reqs : req[r] = IdleReq

\* every stored counter is what it was at the start
CounterUntouched ==
  \A u \in Users : user_usage[u].ai_generations_used = StartUsed(u)

\* the response to the one request of SpecRequest
Answer == IF req[1].pc = "done" THEN req[1].resp ELSE rejected

\* the one request of SpecRequest has been sent and is no longer in flight
Answered == call.pc = "sent" /\ \A r \in Reqs : ~InFlight(r)

\* C12 (as claimed): a POST to the configured proxy that carries no
\* Authorization header, or a token the auth service rejects, is answered
\* 401 Unauthorized, and causes no usage read, no completion call and no
\* counter write.
C12_UnauthorizedWithoutToken ==
  /\ call.pc = "sent" /\ call.via = "http" /\ call.method = "POST"
  /\ GEMINI_API_KEY
  /\ call.auth \in {"missing", "invalid"}
  => /\ rejected = Unauthorized
     /\ NoPipelineActivity
     /\ CounterUntouched

\* a field that is missing, not a string, or empty after trimming
BlankText(x) == x.t # "str" \/ \A i \in 1..Len(x.s) : x.s[i] = " "

C14_FailsClosedWithoutKey ==
  call.pc = "sent" /\ call.method = "POST" /\ ~GEMINI_API_KEY
  => /\ rejected = NotConfigured
     /\ NoPipelineActivity
     /\ CounterUntouched

\* C14 witness: a valid request of an authenticated user with quota left was
\* answered with the configuration error
C14_Witness ==
  /\ call.pc = "sent" /\ ~GEMINI_API_KEY
  /\ call.auth = "valid" /\ call.body = Body(JsStr(<<"x">>), JsStr(<<"x">>))
  /\ \E u \in Users : user_usage[u] = UsageRow(0, "free")
  /\ rejected = NotConfigured

\* C15 (as claimed): every request is answered, and every answer other than
\* the preflight's and a success is a JSON error body with status 401, 400,
\* 429, 404 or 500.
C15_ErrorsAreJson ==
  Answered =>
    /\ Answer # NoResponse
    /\ Answer \notin {Preflight, Success}
         => /\ Answer.kind \in {"error", "limit_reached"}
            /\ Answer.status \in {401, 400, 429, 404, 500}

\* C15 (amended): every request is answered; a method other than OPTIONS and
\* POST is answered 405 with a plain-text body, and every other answer than
\* the preflight's and a success is a JSON error body with status 401, 400,
\* 429, 404 or 500.
C15_ErrorsAreJsonOr405 ==
  Answered =>
    /\ Answer # NoResponse
    /\ Answer = MethodNotAllowed <=> call.method \notin {"OPTIONS", "POST"}
    /\ Answer \notin {Preflight, Success, MethodNotAllowed}
         => /\ Answer.kind \in {"error", "limit_reached"}
            /\ Answer.status \in {401, 400, 429, 404, 500}

\* C15 witness: the completion call was made, and the request was answered
\* from the catch block
C15_Witness ==
  /\ Answered
  /\ req[1].pc = "done" /\ req[1].called
  /\ Answer = InternalError

SaveStep ==
  /\ editor.open /\ ~editor.loading /\ editor.document.exists
  /\ editor'.open /\ editor'.user = editor.user
  /\ editor'.fetching = editor.fetching
  /\ dash' = dash
  /\ editor' # editor

\* C17 (as claimed): a save issued from the session of a user for a document
\* that another user owns is reported as a failure, not as a success, and
\* changes nothing.
C17_ForeignUpdateNotFound ==
  [][/\ SaveStep
     /\ documents[editor.docId].exists
     /\ documents[editor.docId].user_id # editor.user
     => /\ editor'.toast = "error"
        /\ documents' = documents]_vars

\* C18: handleDeleteDocument always ends with one of its two toasts, the
\* error toast exactly when the database call failed; so two successive
\* deletes of the same id whose calls went through both report success,
\* whether or not a row was there to delete.
C18_DeleteIdempotent ==
  /\ \A i \in 1..Len(dash.deletes) :
       /\ dash.deletes[i].toast \in {"success", "error"}
       /\ dash.deletes[i].toast = "error" <=> dash.deletes[i].failed
  /\ \A i \in 1..Len(dash.deletes), j \in 1..Len(dash.deletes) :
       /\ j = i + 1
       /\ dash.deletes[i].id = dash.deletes[j].id
       /\ ~dash.deletes[i].failed /\ ~dash.deletes[j].failed
       => dash.deletes[i].toast = dash.deletes[j].toast

\* C18 witness: the first delete removed the row, the second found none, and
\* both reported success
C18_Witness ==
  /\ Len(dash.deletes) >= 2
  /\ dash.deletes[1].id = dash.deletes[2].id
  /\ dash.deletes[1].matched /\ ~dash.deletes[2].matched
  /\ dash.deletes[1].toast = "success" /\ dash.deletes[2].toast = "success"
  /\ documents[dash.deletes[1].id] = Deleted

\* C19: when a save by the owner of the row has reported success and the
\* same user's next fetchDocument of that id returns with nothing written or
\* deleted in between, it returns the row with the saved title and content.
C19_SaveThenFetchRoundTrip ==
  /\ editor.savedId # 0 /\ editor.applied
  /\ editor.reread # "none"
  /\ ~editor.touched
  => editor.reread = "same"

\* C19 witness: a save that changed title and content was followed by a
\* fetch of the owner, which got both back
C19_Witness ==
  /\ editor.savedId # 0 /\ editor.applied /\ ~editor.touched
  /\ editor.saved.title = "NDA" /\ editor.saved.content = "text"
  /\ editor.reread = "same"
  /\ editor.document = Doc(editor.user, "NDA", "text")

\* the step belongs to getUsage caller c
GetUsageStep(c) == usageCall'[c] # usageCall[c]

\* C20: a getUsage call of an authenticated user whose database calls were
\* accepted returns the user's row unchanged when the select met one, and
\* otherwise has created the row with ai_generations_used = 0 and
\* plan = "free" and returns that row; the call writes nothing else.
C20_GetUsageLazyCreation ==
  /\ [](\A c \in UsageCallers :
          usageCall[c].pc = "done" /\ usageCall[c].error = "none"
          => IF usageCall[c].before.exists
             THEN /\ usageCall[c].found /\ ~usageCall[c].inserted
                  /\ usageCall[c].result = usageCall[c].before
             ELSE /\ usageCall[c].inserted /\ ~usageCall[c].found
                  /\ usageCall[c].result = UsageRow(0, "free"))
  /\ [][\A c \in UsageCallers : GetUsageStep(c) =>
          LET u == usageCall[c].user IN
          IF usageCall'[c].inserted
          THEN /\ ~user_usage[u].exists
               /\ user_usage' = [user_usage EXCEPT ![u] = UsageRow(0, "free")]
          ELSE /\ user_usage' = user_usage
               /\ usageCall[c].pc = "select" /\ user_usage[u].exists
                  /\ usageCall'[c].error = "none"
                  => usageCall'[c].result = user_usage[u]]_vars

\* C20 witness: one call created the row (0, free) for a user that had
\* none and returned it, and the other call then found that row
C20_Witness ==
  /\ usageCall["getUserUsageData"].pc = "done"
  /\ usageCall["getUserUsageData"].inserted
  /\ ~usageCall["getUserUsageData"].before.exists
  /\ usageCall["getUserUsageData"].result = UsageRow(0, "free")
  /\ usageCall["fetchUserUsage"].pc = "done"
  /\ usageCall["fetchUserUsage"].found
  /\ usageCall["fetchUserUsage"].result = UsageRow(0, "free")
  /\ user_usage[usageCall["getUserUsageData"].user] = UsageRow(0, "free")

\* C21: the table never holds more than one usage row for a user, and the
\* number of rows of a user does not go down while the user exists,
\* whatever the interleaving of the signup trigger, the lazy creations of
\* getUsage and the plan-sync upserts.
C21_OneUsageRowPerUser ==
  /\ [](\A u \in Users : usage_rows[u] <= 1)
  /\ [][\A u \in Users :
          u \in auth_users /\ u \in auth_users'
          => usage_rows'[u] >= usage_rows[u]]_vars

\* C21 witness: two lazy creations overlapped for a user without a row; one
\* insert created the row and the other was rejected
C21_Witness ==
  /\ usageCall["getUserUsageData"].inserted
  /\ usageCall["fetchUserUsage"].pc = "done"
  /\ usageCall["fetchUserUsage"].error = "conflict"
  /\ ~usageCall["fetchUserUsage"].before.exists
  /\ usageCall["fetchUserUsage"].user = usageCall["getUserUsageData"].user
  /\ usage_rows[usageCall["fetchUserUsage"].user] = 1

\* C22 (as claimed): once the mirrored subscription of a user is not active
\* and no plan sync is under way, the stored plan is free, and a getUsage
\* whose select ran in such a state returned a row whose plan has the
\* limits of free.
C22_DeletedSubscriptionMeansFree ==
  \A u \in Users :
    stripe_sub[u].subscription_status # "active" /\ sync[u].pc = "idle"
    => /\ user_usage[u].plan = "free"
       /\ \A c \in UsageCallers :
            usageCall[c].pc = "done" /\ usageCall[c].found
            /\ usageCall[c].user = u /\ usageCall[c].before = user_usage[u]
            => getPlanLimits(usageCall[c].result.plan) = getPlanLimits("free")

\* C23 (as claimed): for every request whose generated text the chat has
\* received there is a document row owned by the caller whose content is
\* that text.
C23_GenerationCreatesDocument ==
  \A r \in chat.generated :
    \E d \in DocIds :
      /\ documents[d].exists
      /\ documents[d].user_id = req[r].user
      /\ documents[d].content = "text"

\* C24: while the hook stays unmounted no refresh is started, and while the
\* DocEditor stays unmounted no save is started.
C24_NoRequestAfterUnmount ==
  [][/\ ~hook.mounted /\ ~hook'.mounted
        => ~(hook.pc = "idle" /\ hook'.pc # "idle")
     /\ ~docEditor.mounted /\ ~docEditor'.mounted
        => ~(~docEditor.saving.active /\ docEditor'.saving.active)]_vars

\* C24 witness: the hook was unmounted after a refresh and its interval is
\* cleared; the DocEditor was unmounted with unsaved changes and its timeout
\* is cleared
C24_Witness ==
  /\ ~hook.mounted /\ hook.refreshed /\ hook.pc = "idle" /\ ~hook.interval
  /\ ~docEditor.mounted /\ docEditor.hasUnsavedChanges
  /\ ~docEditor.saving.active /\ ~docEditor.autoSaveTimer

\* C27 (as claimed): when every call of a refresh has failed, the hook holds
\* the subscription, usage and usage check it held when the refresh began,
\* and loading is cleared.
C27_FailedRefreshKeepsState ==
  hook.mounted /\ hook.pc = "idle" /\ hook.refreshed /\ hook.failed
  => /\ HookLoaded(hook) = hook.before
     /\ ~hook.loading

\* C28 (as claimed): when a save returns during which the text was changed,
\* the editor still shows the changed text and marks it as unsaved.
C28_TypingDuringSaveKept ==
  [][/\ docEditor.mounted /\ docEditor.typedDuring
     /\ docEditor.saving.active /\ ~docEditor'.saving.active
     => /\ docEditor'.title = docEditor.title
        /\ docEditor'.content = docEditor.content
        /\ docEditor'.hasUnsavedChanges]_vars

\* the export has reported success
ExportSucceeded == exportCall.resp = Success \/ exportCall.toast = "success"

\* C25 (as claimed): an export request that passes the checks before the
\* token is answered NotConnected when the caller has no token on file and
\* TokenExpired when the token is expired without refresh token; and no
\* export reports success in either case.
C25_ExportNeedsUsableToken ==
  exportCall.pc = "done"
  => /\ exportCall.token \in {"none", "expired"} => ~ExportSucceeded
     /\ exportCall.version # "client" /\ ExportPrefix(exportCall) = Continue
        /\ exportCall.tokensDbOk
        => /\ exportCall.token = "none" => exportCall.resp = NotConnected
           /\ exportCall.token = "expired" => exportCall.resp = TokenExpired

\* C26 (as claimed): neither the generation nor the summarization endpoint
\* answers success for a completion response without non-empty candidate
\* text.
C26_NoSuccessWithoutText ==
  /\ \A r \in Reqs : req[r].resp = Success => ~req[r].empty
  /\ sum.resp = Success => ~sum.empty

\* C29 (as claimed): a user whose plan has a finite document limit never
\* owns more documents than that limit.
C29_DocumentLimitRespected ==
  \A u \in Users :
    LET limit == getPlanLimits(user_usage[u].plan).documents
    IN user_usage[u].exists /\ limit # -1 => DocCount(u) <= limit

\* the upsert of a plan sync of user u returns
SyncEnds(u) == sync[u].pc = "upsert" /\ sync'[u].pc = "idle"

\* C30: the upsert of a plan sync leaves ai_generations_used of an existing
\* usage row as it finds it, whatever the generation requests have written
\* since the sync started or are about to write; the row stays and only its
\* plan may differ.
C30_SyncKeepsCounter ==
  [][\A u \in Users :
       SyncEnds(u) /\ user_usage[u].exists =>
         /\ user_usage'[u].exists
         /\ user_usage'[u].ai_generations_used = user_usage[u].ai_generations_used
         /\ user_usage'[u] \in {user_usage[u],
                                [user_usage[u] EXCEPT !.plan = sync[u].newPlan]}]_vars

\* a plan sync that changed the plan has ended on a row whose counter a
\* generation request wrote after the sync had started, and the row holds
\* that count
C30_Witness ==
  \E u \in Users, r \in Reqs :
    /\ sync[u].pc = "idle" /\ sync[u].overlapped
    /\ req[r].pc = "done" /\ req[r].wrote /\ req[r].user = u
    /\ user_usage[u].plan # "free"
    /\ user_usage[u].ai_generations_used = req[r].snapUsed + 1
====
